---- MODULE Spec2Model ----
(***************************************************************************)
(* Transaction orchestrator of sqrlx (src/sqrlx/sqrl.go): Wrapper.Transact *)
(* with its retry loop, the per-attempt txWrapper (begin, Reset) and the   *)
(* database/sql transaction handles it drives (specification Spec); and    *)
(* the Commander operations of commandWrapper over txWrapper and rawDirect *)
(* with Row.Scan of src/sqrlx/rows.go (specification CmdSpec).             *)
(***************************************************************************)
EXTENDS Integers, Sequences, FiniteSets, TLC

\* ---------------------------------------------------------------- bounds
MaxRetryCount == 3      \* Wrapper.RetryCount ranges over 0..MaxRetryCount
MaxResets == 1          \* Reset calls made by one callback invocation
MaxStmts == 1           \* statements a callback sends on one handle
MaxScans == 2           \* Row.Scan calls made on one Row
MaxColumnsCalls == 2    \* Row.Columns calls made on one Row
MaxRows == 2            \* rows a cursor yields to Rows.Each

DriverErrors == {"e1", "e2"}        \* errors the driver may report
CallbackErrors == {"cbA", "cbB"}    \* errors a callback may return
PanicValues == {"boom"}             \* values a callback may panic with

\* ---------------------------------------------------------------- errors
Nil == [kind |-> "nil"]
ErrTxDone == [kind |-> "sql.ErrTxDone"]
\* context.Canceled, the ctx.Err() of a cancelled context
ContextCanceled == [kind |-> "context.Canceled"]
DriverError(e) == [kind |-> "driver", id |-> e]
CallbackError(c) == [kind |-> "callback", id |-> c]

\* fmt.Errorf("Panic: %s", r): the value is formatted, nothing is wrapped
PanicError(r) == [kind |-> "errorf", format |-> "Panic: %s", arg |-> r]

\* fmt.Errorf("beginning transaction: %w", err)
BeginError(err) ==
    [kind |-> "errorf", format |-> "beginning transaction: %w", cause |-> err]

\* fmt.Errorf("rolling back transaction: %w", err)
RollbackError(err) ==
    [kind |-> "errorf", format |-> "rolling back transaction: %w", cause |-> err]

\* fmt.Errorf("committing transaction: (%d/%d) %w", tries+1, w.RetryCount, err)
CommitError(n, of, err) ==
    [kind |-> "errorf", format |-> "committing transaction: (%d/%d) %w",
     n |-> n, of |-> of, cause |-> err]

\* sql.ErrNoRows
ErrNoRows == [kind |-> "sql.ErrNoRows"]

\* what a Sqlizer's ToSql reports
BuilderError(e) == [kind |-> "builder", id |-> e]

\* what a PlaceholderFormat's ReplacePlaceholders reports
PlaceholderError == [kind |-> "placeholder"]

\* &QueryError{cause: err, Statement: statement}
QueryError(err, stmt) == [kind |-> "QueryError", cause |-> err, Statement |-> stmt]

\* faulty variant: the earlier error is formatted with %s, not wrapped
ExistingRowErrorText(err) ==
    [kind |-> "errorf", format |-> "existing row error in scan: %s", arg |-> err]

\* fmt.Errorf("existing row error in scan: %w", r.err)
ExistingRowError(err) ==
    [kind |-> "errorf", format |-> "existing row error in scan: %w", cause |-> err]

\* faulty variant: the earlier error is formatted with %s, not wrapped
ExistingRowColumnsErrorText(err) ==
    [kind |-> "errorf", format |-> "existing row error in columns: %s", arg |-> err]

\* fmt.Errorf("existing row error in columns: %w", r.err)
ExistingRowColumnsError(err) ==
    [kind |-> "errorf", format |-> "existing row error in columns: %w", cause |-> err]

\* faulty variant: the cursor's error is dropped and no row is reported
RowNextErrorDropped(err) == ErrNoRows

\* fmt.Errorf("error in row scan row next: %w", err)
RowNextError(err) ==
    [kind |-> "errorf", format |-> "error in row scan row next: %w", cause |-> err]

\* fmt.Errorf("error in row scan: %w", err)
RowScanError(err) ==
    [kind |-> "errorf", format |-> "error in row scan: %w", cause |-> err]

\* fmt.Errorf("%d rows effected by InsertRow", count)
RowsEffectedError(count) ==
    [kind |-> "errorf", format |-> "%d rows effected by InsertRow", n |-> count]

\* errors.Unwrap: only %w wraps; QueryError has an Unwrap method
Unwrap(err) == IF "cause" \in DOMAIN err THEN err.cause ELSE Nil

\* errors.Is(err, target)
RECURSIVE ErrorsIs(_, _)
ErrorsIs(err, target) ==
    /\ err # Nil
    /\ \/ err = target
       \/ ErrorsIs(Unwrap(err), target)

\* the pieces of err.Error(), outermost first
RECURSIVE ErrorText(_)
ErrorText(err) ==
    CASE err.kind = "nil" -> << >>
      [] err.kind = "sql.ErrTxDone" -> <<"sql: transaction has already been committed or rolled back">>
      [] err.kind = "context.Canceled" -> <<"context canceled">>
      [] err.kind = "driver" -> <<err.id>>
      [] err.kind = "callback" -> <<err.id>>
      [] err.kind = "errorf" ->
            IF "arg" \in DOMAIN err THEN <<err.format, err.arg>>
            ELSE <<err.format>> \o ErrorText(err.cause)

TextContains(err, s) == \E i \in DOMAIN ErrorText(err) : ErrorText(err)[i] = s

\* ---------------------------------------------------------------- state
VARIABLES
    RetryCount,              \* Wrapper.RetryCount
    ShouldRetryTransaction,  \* Wrapper.ShouldRetryTransaction (nil or a predicate)
    Retryable,               \* opts.Retryable of the Transact call
    pc,                      \* position of Transact
    tries,                   \* loop counter of Transact
    exitWithError,           \* Transact's exitWithError
    tx,                      \* txWrapped.tx: index into handles, 0 = nil
    cbErr,                   \* result of the guarded callback invocation
    returnErr,               \* what Transact returned
    handles,                 \* the *sql.Tx handles begun in this loop iteration
    resets,                  \* Reset calls of the running callback invocation
    begins,                  \* BeginTx calls issued by the retry loop
    beginOks,                \* ... of which succeeded
    cbCalls,                 \* invocations of the callback
    cbFails,                 \* ... of which returned an error or panicked
    cbOutcome,               \* how this iteration's callback invocation ended
    panics,                  \* callback invocations that panicked
    panicValue,              \* the value of the latest panic
    commitCalls,             \* Commit calls
    commitOks,               \* ... of which succeeded
    rollbackCalls,           \* Rollback calls made by Transact itself
    driverRes,               \* Transact's latest Commit or Rollback call and its answer
    lastFailure,             \* the most recent failing stage of the retry loop
    exit,                    \* which return statement Transact took
    cancelled,               \* the ctx of the Transact call is done
    cancelSeen,              \* a driver call of this attempt's callback failed for it
    rawCommander,            \* commandWrapper.rawCommander: a txWrapper or a rawDirect
    PlaceholderFormat,       \* the rawCommander's PlaceholderFormat
    op,                      \* the Commander method that was called
    cpc,                     \* position of that call
    bb,                      \* what the Sqlizer's ToSql answers
    statement,               \* the statement text handed to the raw commander
    sent,                    \* statements the driver received, with its answers
    selTries,                \* loop counter of txWrapper.SelectRaw
    firstError,              \* SelectRaw's firstError
    result,                  \* what the call returned
    row,                     \* the Row a Row-returning method returned
    cursor,                  \* calls made on the cursor (IRows) so far
    scanned,                 \* what the latest Row.Scan met and returned
    scanCalls,               \* Row.Scan calls made on row
    columns,                 \* Row.Columns calls made on row, and the latest answer
    each,                    \* how Rows.Each went
    dest,                    \* the destination handed to ScanStruct
    src,                     \* the Scannable handed to ScanStruct, and the calls made on it
    srcs,                    \* the records handed to InsertStruct
    builder,                 \* the InsertBuilder InsertStruct returned
    mapErr,                  \* the error ScanStruct or InsertStruct returned
    upsert,                  \* the UpsertBuilder a caller is building
    sqlPrev,                 \* what the ToSql call before the latest returned
    sqlLast,                 \* what the latest ToSql call returned
    toSqlCalls,              \* ToSql calls made on the UpsertBuilder
    calls,                   \* the locals of each concurrent Transact call
    pool                     \* the *sql.Tx handles a txWrapper refers to

\* the state of one Commander call
\* the use made of the Row or Rows a Commander call returned
rowVars == <<cursor, scanned, scanCalls, columns, each>>

cmdVars == <<rawCommander, PlaceholderFormat, op, cpc, bb, statement, sent,
             selTries, firstError, result, row, rowVars>>

\* the state of one struct mapper call
mapVars == <<dest, src, srcs, builder, mapErr>>

\* the state of one UpsertBuilder
upsertVars == <<upsert, sqlPrev, sqlLast, toSqlCalls>>

\* the state of concurrent Transact calls
concVars == <<calls, pool>>

\* the caller's context
ctxVars == <<cancelled, cancelSeen>>

vars == <<RetryCount, ShouldRetryTransaction, Retryable, pc, tries, exitWithError,
          tx, cbErr, returnErr, handles, resets, begins, beginOks, cbCalls, cbFails,
          cbOutcome, panics, panicValue, commitCalls, commitOks, rollbackCalls,
          driverRes, lastFailure, exit, ctxVars, cmdVars, mapVars, upsertVars,
          concVars>>

config == <<RetryCount, ShouldRetryTransaction, Retryable>>

\* what the program itself holds
progVars == <<pc, tries, exitWithError, tx, cbErr, returnErr>>

\* errors the guarded callback invocation can produce
CallbackResults ==
    {CallbackError(c) : c \in CallbackErrors} \cup {PanicError(r) : r \in PanicValues}

\* a nil predicate, or any predicate over the errors a callback can produce
RetryPolicies ==
    {[isNil |-> TRUE, accepts |-> {}]}
        \cup {[isNil |-> FALSE, accepts |-> S] : S \in SUBSET CallbackResults}

\* ------------------------------------------------------- database/sql Tx
NewHandle ==
    [state |-> "open", commits |-> 0, rollbacks |-> 0, stmts |-> 0]

TxDone(h) == handles[h].state # "open"

\* what BeginTx can answer: ctx.Err() when the context is done
BeginResults ==
    IF cancelled THEN {ContextCanceled}
    ELSE {Nil} \cup {DriverError(e) : e \in DriverErrors}

\* what tx.Rollback() can answer on handle h; once the context is done the
\* handle's awaitDone may have rolled it back already
RollbackResults(h) ==
    IF TxDone(h) THEN {ErrTxDone}
    ELSE {Nil} \cup {DriverError(e) : e \in DriverErrors}
            \cup (IF cancelled THEN {ErrTxDone} ELSE {})

\* what tx.Commit() can answer on handle h; once the context is done it
\* answers ErrTxDone or ctx.Err() and commits nothing
CommitResults(h) ==
    IF TxDone(h) THEN {ErrTxDone}
    ELSE IF cancelled THEN {ErrTxDone, ContextCanceled}
    ELSE {Nil} \cup {DriverError(e) : e \in DriverErrors}

\* faulty variant: the rollback never reaches the handle
AfterRollbackSkipped(h, res) == handles

\* the handles after tx.Rollback() on h answered res
AfterRollback(h, res) ==
    [handles EXCEPT ![h] =
        [@ EXCEPT !.rollbacks = @ + 1,
                  !.state = IF TxDone(h) THEN @
                            ELSE IF res \in {Nil, ErrTxDone} THEN "rolledback"
                            ELSE "rollbackFailed"]]

\* the handles after tx.Commit() on h answered res
AfterCommit(h, res) ==
    [handles EXCEPT ![h] =
        [@ EXCEPT !.commits = @ + 1,
                  !.state = IF TxDone(h) THEN @
                            ELSE IF res = Nil THEN "committed"
                            ELSE IF res = ErrTxDone THEN "rolledback"
                            ELSE IF res = ContextCanceled THEN @
                            ELSE "commitFailed"]]

NoCall == [call |-> "none", res |-> Nil]
NoFailure == [stage |-> "none", attempt |-> 0, err |-> Nil]

\* ------------------------------------------------------ Commander values
\* no Commander method has been called
NoCommander == [type |-> "none"]
NoSqlizer == [str |-> << >>, err |-> Nil]
NoResult == [val |-> Nil, err |-> Nil]
NoRow == [Rows |-> Nil, err |-> Nil]
NoCalls == [nexts |-> 0, errs |-> 0, scans |-> 0, closes |-> 0]
NotScanned == [path |-> "none", err |-> Nil, next |-> "none", cursorErr |-> Nil]
NoColumns == [calls |-> 0, onCursor |-> 0, err |-> Nil]
NotIterated == [path |-> "none", fnCalls |-> 0, err |-> Nil]

NoCommand ==
    /\ op = "none"
    /\ cpc = "idle"
    /\ bb = NoSqlizer
    /\ statement = << >>
    /\ sent = << >>
    /\ selTries = 0
    /\ firstError = Nil
    /\ result = NoResult
    /\ row = NoRow
    /\ cursor = NoCalls
    /\ scanned = NotScanned
    /\ scanCalls = 0
    /\ columns = NoColumns
    /\ each = NotIterated

\* no struct mapper function has been called
NoValue == [kind |-> "invalid", elem |-> "none", fields |-> << >>]
NoScannable ==
    [ColumnsVal |-> << >>, ColumnsErr |-> Nil, ScanErr |-> Nil,
     columnsCalls |-> 0, scanCalls |-> 0, toScan |-> << >>]
NoBuilder == [kind |-> "nil"]

NoMapping ==
    /\ dest = NoValue
    /\ src = NoScannable
    /\ srcs = << >>
    /\ builder = NoBuilder
    /\ mapErr = Nil

\* ---------------------------------------------------------------- Init
\* Transact has been called and has not yet begun
TransactStart ==
    /\ pc = "loop"
    /\ tries = 0
    /\ exitWithError = Nil
    /\ tx = 0
    /\ cbErr = Nil
    /\ returnErr = Nil
    /\ handles = << >>
    /\ resets = 0
    /\ begins = 0
    /\ beginOks = 0
    /\ cbCalls = 0
    /\ cbFails = 0
    /\ cbOutcome = "none"
    /\ panics = 0
    /\ panicValue = ""
    /\ commitCalls = 0
    /\ commitOks = 0
    /\ rollbackCalls = 0
    /\ driverRes = NoCall
    /\ lastFailure = NoFailure
    /\ exit = "running"
    /\ cancelled = FALSE
    /\ cancelSeen = FALSE

\* no ToSql call made yet
NoSql == [kind |-> "none"]

\* no UpsertBuilder in use
NoUpsert ==
    /\ upsert = [kind |-> "none"]
    /\ sqlPrev = NoSql
    /\ sqlLast = NoSql
    /\ toSqlCalls = 0

\* no concurrent Transact calls under way
NoConcurrentCalls ==
    /\ calls = << >>
    /\ pool = << >>

Init ==
    /\ RetryCount \in 0..MaxRetryCount
    /\ ShouldRetryTransaction \in RetryPolicies
    /\ Retryable \in BOOLEAN
    /\ TransactStart
    /\ rawCommander = NoCommander
    /\ PlaceholderFormat = "none"
    /\ NoCommand
    /\ NoMapping
    /\ NoUpsert
    /\ NoConcurrentCalls

\* -------------------------------------------------------------- Transact
\* faulty variant: the loop bound taken inclusively
LoopCondInclusive(t, rc) == t <= rc

\* for tries := 0; tries < w.RetryCount; tries++
LoopCond(t, rc) == t < rc

\* faulty variant: the first recorded error is kept, as SelectRaw keeps firstError
KeepFirstError(old, new) == IF old # Nil THEN old ELSE new

\* exitWithError = err
NextExitError(old, new) == new

\* faulty variant: the predicate is never consulted
ShouldRetryNever(err) == FALSE

\* w.ShouldRetryTransaction != nil && w.ShouldRetryTransaction(err)
ShouldRetry(err) ==
    /\ ~ShouldRetryTransaction.isNil
    /\ err \in ShouldRetryTransaction.accepts

\* faulty variant: the recovered panic is dropped, err stays nil
RecoverNothing(r) == Nil

\* the deferred recover() of the guarded callback invocation
Recover(r) == PanicError(r)

\* faulty variant: the callback's error is wrapped like a rollback failure
CallbackFailureWrapped(err) == RollbackError(err)

\* return err: the callback's error goes to the caller
CallbackFailure(err) == err

\* exitWithError = err; continue
Continue(stage, err) ==
    /\ exitWithError' = NextExitError(exitWithError, err)
    /\ lastFailure' = [stage |-> stage, attempt |-> tries, err |-> err]
    /\ tries' = tries + 1
    /\ pc' = "loop"
    /\ UNCHANGED <<returnErr, exit>>

\* return from inside the loop
Return(err, how) ==
    /\ returnErr' = err
    /\ pc' = "done"
    /\ exit' = how
    /\ UNCHANGED <<tries, exitWithError, lastFailure>>

\* faulty variant: a failed begin returns its error at once
BeginFailedReturns(res) == Return(BeginError(res), "beginFailed")

\* if err := txWrapped.begin(ctx); err != nil { exitWithError = err; continue }
BeginFailed(res) == Continue("begin", BeginError(res))

\* one loop iteration up to the callback: a fresh txWrapper, then begin
Begin ==
    /\ pc = "loop"
    /\ LoopCond(tries, RetryCount)
    /\ begins' = begins + 1
    /\ cbErr' = Nil
    /\ \E res \in BeginResults :
          IF res # Nil
          THEN /\ BeginFailed(res)
               /\ tx' = 0
               /\ handles' = << >>
               /\ cbOutcome' = "none"
               /\ UNCHANGED <<beginOks, cbCalls, resets>>
          ELSE /\ handles' = <<NewHandle>>
               /\ tx' = 1
               /\ pc' = "callback"
               /\ beginOks' = beginOks + 1
               /\ cbCalls' = cbCalls + 1
               /\ cbOutcome' = "running"
               /\ resets' = 0
               /\ UNCHANGED <<tries, exitWithError, lastFailure, returnErr, exit>>
    /\ cancelSeen' = FALSE
    /\ UNCHANGED cancelled
    /\ UNCHANGED <<concVars, upsertVars, config, cmdVars, mapVars, cbFails, panics, panicValue, commitCalls, commitOks, rollbackCalls,
                   driverRes>>

\* the loop condition fails: return exitWithError
LoopExit ==
    /\ pc = "loop"
    /\ ~LoopCond(tries, RetryCount)
    /\ returnErr' = exitWithError
    /\ pc' = "done"
    /\ exit' = "exhausted"
    /\ UNCHANGED <<concVars, upsertVars, config, cmdVars, mapVars, ctxVars, tries, exitWithError, tx, cbErr, handles, resets, begins,
                   beginOks, cbCalls, cbFails, cbOutcome, panics, panicValue,
                   commitCalls, commitOks, rollbackCalls, driverRes, lastFailure>>

\* the callback sends a statement through its Commander
CbExecRaw ==
    /\ pc = "callback"
    /\ handles[tx].stmts < MaxStmts
    /\ handles' = [handles EXCEPT ![tx].stmts = @ + 1]
    /\ cancelSeen' = (cancelSeen \/ cancelled)
    /\ UNCHANGED cancelled
    /\ UNCHANGED <<concVars, upsertVars, config, cmdVars, mapVars, progVars, resets, begins, beginOks, cbCalls, cbFails,
                   cbOutcome, panics, panicValue, commitCalls, commitOks, rollbackCalls, driverRes,
                   lastFailure, exit>>

\* the callback calls Reset: roll the handle back, then begin a new one
Reset ==
    /\ pc = "callback"
    /\ resets < MaxResets
    /\ resets' = resets + 1
    /\ \E rb \in RollbackResults(tx) :
          IF rb # Nil
          THEN /\ handles' = AfterRollback(tx, rb)
               /\ tx' = tx
               /\ cancelSeen' = (cancelSeen \/ (cancelled /\ rb = ErrTxDone))
          ELSE \E res \in BeginResults :
                  IF res # Nil
                  THEN /\ handles' = AfterRollback(tx, rb)
                       /\ tx' = tx
                       /\ cancelSeen' = (cancelSeen \/ res = ContextCanceled)
                  ELSE /\ handles' = Append(AfterRollback(tx, rb), NewHandle)
                       /\ tx' = Len(handles) + 1
                       /\ UNCHANGED cancelSeen
    /\ UNCHANGED cancelled
    /\ UNCHANGED <<concVars, upsertVars, config, cmdVars, mapVars, pc, tries, exitWithError, cbErr, returnErr, begins,
                   beginOks, cbCalls, cbFails, cbOutcome, panics, panicValue,
                   commitCalls, commitOks, rollbackCalls, driverRes, lastFailure, exit>>

\* faulty variant: the callback's error is not looked at before committing
AfterCallbackCommits(err) ==
    /\ cbErr' = err
    /\ pc' = "commit"

\* if err := func() (err error) {...}(); err != nil
AfterCallback(err) ==
    /\ cbErr' = err
    /\ pc' = IF err # Nil THEN "rollback" ELSE "commit"

\* the callback returns nil or an error
CbReturn ==
    /\ pc = "callback"
    /\ \E err \in {Nil} \cup {CallbackError(c) : c \in CallbackErrors} :
          /\ AfterCallback(err)
          /\ cbOutcome' = IF err = Nil THEN "ok" ELSE "error"
          /\ cbFails' = IF err = Nil THEN cbFails ELSE cbFails + 1
    /\ UNCHANGED <<concVars, upsertVars, config, cmdVars, mapVars, ctxVars, tries, exitWithError, tx, returnErr, handles, resets,
                   begins, beginOks, cbCalls, panics, panicValue, commitCalls,
                   commitOks, rollbackCalls, driverRes, lastFailure, exit>>

\* the callback panics; the deferred recover turns the panic into an error
CbPanic ==
    /\ pc = "callback"
    /\ \E r \in PanicValues :
          /\ AfterCallback(Recover(r))
          /\ panicValue' = r
    /\ cbOutcome' = "panic"
    /\ cbFails' = cbFails + 1
    /\ panics' = panics + 1
    /\ UNCHANGED <<concVars, upsertVars, config, cmdVars, mapVars, ctxVars, tries, exitWithError, tx, returnErr, handles, resets,
                   begins, beginOks, cbCalls, commitCalls, commitOks, rollbackCalls, driverRes,
                   lastFailure, exit>>

\* the rollback succeeded: retry when the predicate accepts the error, else return it
RolledBack ==
    IF ShouldRetry(cbErr)
    THEN Continue("callback", cbErr)
    ELSE Return(CallbackFailure(cbErr), "callbackError")

\* faulty variant: the rollback's error is ignored, as in the older Transact of src/sqrl.go
RollbackFailureIgnored(res) == RolledBack

\* if err := txWrapped.tx.Rollback(); err != nil { return ... }
RollbackFailed(res) == Return(RollbackError(res), "rollbackFailed")

\* the callback invocation gave an error: roll back, then retry or return
Rollback ==
    /\ pc = "rollback"
    /\ \E res \in RollbackResults(tx) :
          /\ handles' = AfterRollback(tx, res)
          /\ driverRes' = [call |-> "rollback", res |-> res]
          /\ IF res # Nil THEN RollbackFailed(res) ELSE RolledBack
    /\ rollbackCalls' = rollbackCalls + 1
    /\ UNCHANGED <<concVars, upsertVars, config, cmdVars, mapVars, ctxVars, tx, cbErr, resets, begins, beginOks, cbCalls,
                   cbFails, cbOutcome, panics, panicValue, commitCalls, commitOks>>

\* faulty variant: a failed commit returns at once, as the doc comment of Transact has it
CommitFailedReturns(res) ==
    Return(CommitError(tries + 1, RetryCount, res), "commitFailed")

\* if err := txWrapped.tx.Commit(); err != nil { exitWithError = ...; continue }
CommitFailed(res) == Continue("commit", CommitError(tries + 1, RetryCount, res))

\* faulty variant: the return after a successful commit is missing, the loop goes on
CommittedContinues ==
    /\ tries' = tries + 1
    /\ pc' = "loop"
    /\ UNCHANGED <<exitWithError, lastFailure, returnErr, exit>>

\* return nil
Committed == Return(Nil, "committed")

\* the callback invocation gave nil: commit, then return nil or retry
Commit ==
    /\ pc = "commit"
    /\ \E res \in CommitResults(tx) :
          /\ handles' = AfterCommit(tx, res)
          /\ driverRes' = [call |-> "commit", res |-> res]
          /\ commitOks' = IF res = Nil THEN commitOks + 1 ELSE commitOks
          /\ IF res # Nil THEN CommitFailed(res) ELSE Committed
    /\ commitCalls' = commitCalls + 1
    /\ UNCHANGED <<concVars, upsertVars, config, cmdVars, mapVars, ctxVars, tx, cbErr, resets, begins, beginOks, cbCalls,
                   cbFails, cbOutcome, panics, panicValue, rollbackCalls>>

Next ==
    \/ Begin
    \/ LoopExit
    \/ CbExecRaw
    \/ Reset
    \/ CbReturn
    \/ CbPanic
    \/ Rollback
    \/ Commit

Spec == Init /\ [][Next]_vars

\* ---------------------------------------------------------- cancellation
\* the caller's context is cancelled while Transact runs
Cancel ==
    /\ pc # "done"
    /\ ~cancelled
    /\ cancelled' = TRUE
    /\ UNCHANGED <<concVars, upsertVars, config, cmdVars, mapVars, progVars, handles, resets, begins,
                   beginOks, cbCalls, cbFails, cbOutcome, panics, panicValue,
                   commitCalls, commitOks, rollbackCalls, driverRes, lastFailure,
                   exit, cancelSeen>>

\* Transact with no predicate or with one that accepts every error
CancelInit ==
    /\ RetryCount \in 0..MaxRetryCount
    /\ ShouldRetryTransaction \in
          {[isNil |-> TRUE, accepts |-> {}],
           [isNil |-> FALSE, accepts |-> CallbackResults]}
    /\ Retryable = FALSE
    /\ TransactStart
    /\ rawCommander = NoCommander
    /\ PlaceholderFormat = "none"
    /\ NoCommand
    /\ NoMapping
    /\ NoUpsert
    /\ NoConcurrentCalls

CancelNext ==
    \/ Begin
    \/ LoopExit
    \/ CbExecRaw
    \/ Reset
    \/ CbReturn
    \/ CbPanic
    \/ Rollback
    \/ Commit
    \/ Cancel

CancelSpec == CancelInit /\ [][CancelNext]_vars

TypeOK ==
    /\ pc \in {"loop", "callback", "rollback", "commit", "done"}
    /\ tries \in 0..RetryCount
    /\ tx \in 0..Len(handles)
    /\ pc \in {"callback", "rollback", "commit"} => tx \in DOMAIN handles

\* ======================================================= Commander calls
MaxRowsAffected == 2    \* RowsAffected answers range over 0..MaxRowsAffected

BuilderErrors == {"TEST"}           \* errors a Sqlizer may report

\* statement texts in pieces; "?" is a placeholder
Statements ==
    {<<"SELECT a FROM b WHERE c = ", "?">>, <<"INSERT INTO b VALUES (", "?", ")">>}

\* what bb.ToSql() can answer
SqlizerResults ==
    {[str |-> s, err |-> Nil] : s \in Statements}
        \cup {[str |-> << >>, err |-> BuilderError(e)] : e \in BuilderErrors}

\* a PlaceholderFormat that rewrites (testPlaceholder) and one that reports an error
PlaceholderFormats == {"testPlaceholder", "failing"}

\* strings.ReplaceAll(sql, "?", "!"), nil; or an error
ReplacePlaceholders(format, sql) ==
    IF format = "testPlaceholder"
    THEN [str |-> [i \in DOMAIN sql |-> IF sql[i] = "?" THEN "!" ELSE sql[i]],
          err |-> Nil]
    ELSE [str |-> << >>, err |-> PlaceholderError]

\* statement, params, err := bb.ToSql(); statement, err = ReplacePlaceholders(statement)
Prepare(b) ==
    IF b.err # Nil
    THEN [str |-> << >>, err |-> b.err]
    ELSE ReplacePlaceholders(PlaceholderFormat, b.str)

\* faulty variant: Transact marks the txWrapper as being inside a transaction
TxWrapperInTransaction(rc) ==
    [type |-> "txWrapper", RetryCount |-> rc, isTransaction |-> TRUE]

\* txWrapped := &txWrapper{...}: isTransaction keeps its zero value
TxWrapperOfTransact(rc) ==
    [type |-> "txWrapper", RetryCount |-> rc, isTransaction |-> FALSE]

\* commandWrapper{rawCommander: rawDirect{...}}
RawDirect == [type |-> "rawDirect"]

\* Transact is inside its first callback invocation
InCallback ==
    /\ pc = "callback"
    /\ tries = 0
    /\ exitWithError = Nil
    /\ tx = 1
    /\ cbErr = Nil
    /\ returnErr = Nil
    /\ handles = <<NewHandle>>
    /\ resets = 0
    /\ begins = 1
    /\ beginOks = 1
    /\ cbCalls = 1
    /\ cbFails = 0
    /\ cbOutcome = "running"
    /\ panics = 0
    /\ panicValue = ""
    /\ commitCalls = 0
    /\ commitOks = 0
    /\ rollbackCalls = 0
    /\ driverRes = NoCall
    /\ lastFailure = NoFailure
    /\ exit = "running"
    /\ cancelled = FALSE
    /\ cancelSeen = FALSE

\* a Commander is at hand: the txWrapper of a running Transact callback, or the
\* rawDirect of NewWithCommander outside any transaction
CmdInit ==
    /\ RetryCount \in -1..MaxRetryCount
    /\ ShouldRetryTransaction = [isNil |-> TRUE, accepts |-> {}]
    /\ Retryable = FALSE
    /\ PlaceholderFormat \in PlaceholderFormats
    /\ \/ rawCommander = RawDirect /\ TransactStart
       \/ /\ LoopCond(0, RetryCount)
          /\ rawCommander = TxWrapperOfTransact(RetryCount)
          /\ InCallback
    /\ NoCommand
    /\ NoMapping
    /\ NoUpsert
    /\ NoConcurrentCalls

\* the variables of Transact, which a Commander call leaves alone
transactVars ==
    <<config, progVars, handles, resets, begins, beginOks, cbCalls, cbFails,
      cbOutcome, panics, panicValue, commitCalls, commitOks, rollbackCalls,
      driverRes, lastFailure, exit, ctxVars>>

\* ----------------------------------------------------------- the driver
Rows(n) == [kind |-> "rows", id |-> n]
Result(n, err) == [kind |-> "result", rowsAffected |-> n, raErr |-> err]
Bool(b) == [kind |-> "bool", b |-> b]

\* what QueryContext can answer to the n-th statement
QueryAnswers(n) ==
    {[rows |-> Rows(n), err |-> Nil]}
        \cup {[rows |-> Nil, err |-> DriverError(e)] : e \in DriverErrors}
        \cup {[rows |-> Nil, err |-> ErrNoRows]}

\* what ExecContext can answer, with what the result's RowsAffected will answer
ExecAnswers ==
    {[res |-> Result(n, Nil), err |-> Nil] : n \in 0..MaxRowsAffected}
        \cup {[res |-> Result(0, DriverError(e)), err |-> Nil] : e \in DriverErrors}
        \cup {[res |-> Nil, err |-> DriverError(e)] : e \in DriverErrors}

\* the driver receives a statement and answers
Send(call, stmt, ans) ==
    Append(sent, [call |-> call, statement |-> stmt, answer |-> ans])

\* ------------------------------------------------------- raw commanders
\* faulty variant: the driver's error is returned as it is
ExecFailureBare(err, stmt) == err

\* return nil, &QueryError{cause: err, Statement: statement}
ExecFailure(err, stmt) == QueryError(err, stmt)

\* return nil, err
QueryFailure(err, stmt) == err

\* txWrapper.ExecRaw and rawDirect.ExecRaw, given the driver's answer
ExecRawResult(stmt, ans) ==
    IF ans.err # Nil
    THEN [val |-> Nil, err |-> ExecFailure(ans.err, stmt)]
    ELSE [val |-> ans.res, err |-> Nil]

\* txWrapper.QueryRaw and rawDirect.QueryRaw, given the driver's answer
QueryRawResult(stmt, ans) ==
    IF ans.err # Nil
    THEN [val |-> Nil, err |-> QueryFailure(ans.err, stmt)]
    ELSE [val |-> ans.rows, err |-> Nil]

\* --------------------------------------------------------------- rows.go
\* rowFromRes(rows, err)
RowFromRes(r) ==
    IF r.err # Nil THEN [Rows |-> Nil, err |-> r.err] ELSE [Rows |-> r.val, err |-> Nil]

RowOps == {"QueryRow", "QueryRowRaw", "SelectRow"}

\* the call returns r; the Row-returning methods wrap it with rowFromRes
Returned(o, r) ==
    /\ result' = r
    /\ row' = IF o \in RowOps THEN RowFromRes(r) ELSE NoRow
    /\ cpc' = "returned"

\* ----------------------------------------------------- commandWrapper
ExecOps == {"Exec", "Insert", "Update", "Delete"}

\* commandWrapper.Exec; Insert, Update and Delete only call it
Exec ==
    /\ cpc = "idle"
    /\ \E o \in ExecOps, b \in SqlizerResults :
          /\ op' = o
          /\ bb' = b
          /\ IF Prepare(b).err # Nil
             THEN /\ Returned(o, [val |-> Nil, err |-> Prepare(b).err])
                  /\ UNCHANGED <<statement, sent>>
             ELSE \E ans \in ExecAnswers :
                     /\ statement' = Prepare(b).str
                     /\ sent' = Send("exec", Prepare(b).str, ans)
                     /\ Returned(o, ExecRawResult(Prepare(b).str, ans))
    /\ UNCHANGED <<concVars, upsertVars, transactVars, mapVars, rawCommander, PlaceholderFormat, selTries,
                   firstError, rowVars>>

\* ExecRaw of the raw commander, called with a statement text
ExecRaw ==
    /\ cpc = "idle"
    /\ op' = "ExecRaw"
    /\ \E stmt \in Statements, ans \in ExecAnswers :
          /\ statement' = stmt
          /\ sent' = Send("exec", stmt, ans)
          /\ Returned("ExecRaw", ExecRawResult(stmt, ans))
    /\ UNCHANGED <<concVars, upsertVars, transactVars, mapVars, rawCommander, PlaceholderFormat, bb, selTries,
                   firstError, rowVars>>

\* faulty variant: any positive count is reported as an insert
InsertRowResultAnyRows(r) ==
    IF r.err # Nil THEN [val |-> Bool(FALSE), err |-> r.err]
    ELSE IF r.val.raErr # Nil THEN [val |-> Bool(FALSE), err |-> r.val.raErr]
    ELSE [val |-> Bool(r.val.rowsAffected > 0), err |-> Nil]

\* count, err := res.RowsAffected() and what InsertRow makes of it
InsertRowResult(r) ==
    IF r.err # Nil THEN [val |-> Bool(FALSE), err |-> r.err]
    ELSE IF r.val.raErr # Nil THEN [val |-> Bool(FALSE), err |-> r.val.raErr]
    ELSE IF r.val.rowsAffected = 0 THEN [val |-> Bool(FALSE), err |-> Nil]
    ELSE IF r.val.rowsAffected = 1 THEN [val |-> Bool(TRUE), err |-> Nil]
    ELSE [val |-> Bool(FALSE), err |-> RowsEffectedError(r.val.rowsAffected)]

\* commandWrapper.InsertRow
InsertRow ==
    /\ cpc = "idle"
    /\ op' = "InsertRow"
    /\ \E b \in SqlizerResults :
          /\ bb' = b
          /\ IF Prepare(b).err # Nil
             THEN /\ Returned("InsertRow",
                              InsertRowResult([val |-> Nil, err |-> Prepare(b).err]))
                  /\ UNCHANGED <<statement, sent>>
             ELSE \E ans \in ExecAnswers :
                     /\ statement' = Prepare(b).str
                     /\ sent' = Send("exec", Prepare(b).str, ans)
                     /\ Returned("InsertRow",
                                 InsertRowResult(ExecRawResult(Prepare(b).str, ans)))
    /\ UNCHANGED <<concVars, upsertVars, transactVars, mapVars, rawCommander, PlaceholderFormat, selTries,
                   firstError, rowVars>>

\* one QueryRaw of the raw commander for the method o
QueryRawOnce(o, stmt) ==
    \E ans \in QueryAnswers(Len(sent) + 1) :
        /\ sent' = Send("query", stmt, ans)
        /\ Returned(o, QueryRawResult(stmt, ans))
        /\ UNCHANGED <<selTries, firstError>>

\* txWrapper.SelectRaw enters its loop; rawDirect.SelectRaw only calls QueryRaw
SelectRaw(o, stmt) ==
    IF rawCommander.type = "rawDirect"
    THEN QueryRawOnce(o, stmt)
    ELSE /\ cpc' = "selectRaw"
         /\ selTries' = 0
         /\ firstError' = Nil
         /\ UNCHANGED <<sent, result, row>>

\* faulty variant: Query goes through the retrying SelectRaw
QueryThroughSelectRaw(o, stmt) == SelectRaw(o, stmt)

\* rows, err := w.rawCommander.QueryRaw(ctx, statement, params...)
QueryThroughQueryRaw(o, stmt) == QueryRawOnce(o, stmt)

\* a method that takes a Sqlizer and runs its query, through SelectRaw when
\* retrying is set and through QueryRaw otherwise
BuilderQuery(o, b, retrying) ==
    /\ op' = o
    /\ bb' = b
    /\ IF Prepare(b).err # Nil
       THEN /\ Returned(o, [val |-> Nil, err |-> Prepare(b).err])
            /\ UNCHANGED <<statement, sent, selTries, firstError>>
       ELSE /\ statement' = Prepare(b).str
            /\ IF retrying
               THEN SelectRaw(o, Prepare(b).str)
               ELSE QueryThroughQueryRaw(o, Prepare(b).str)
    /\ UNCHANGED <<concVars, upsertVars, transactVars, mapVars, rawCommander, PlaceholderFormat, rowVars>>

\* commandWrapper.Query
Query ==
    /\ cpc = "idle"
    /\ \E b \in SqlizerResults : BuilderQuery("Query", b, FALSE)

\* commandWrapper.QueryRow: rowFromRes(w.Query(ctx, bb))
QueryRow ==
    /\ cpc = "idle"
    /\ \E b \in SqlizerResults : BuilderQuery("QueryRow", b, FALSE)

\* QueryRaw of the raw commander, called with a statement text
QueryRaw ==
    /\ cpc = "idle"
    /\ op' = "QueryRaw"
    /\ \E stmt \in Statements :
          /\ statement' = stmt
          /\ QueryRawOnce("QueryRaw", stmt)
    /\ UNCHANGED <<concVars, upsertVars, transactVars, mapVars, rawCommander, PlaceholderFormat, bb, rowVars>>

\* commandWrapper.QueryRowRaw: rowFromRes(w.rawCommander.QueryRaw(...))
QueryRowRaw ==
    /\ cpc = "idle"
    /\ op' = "QueryRowRaw"
    /\ \E stmt \in Statements :
          /\ statement' = stmt
          /\ QueryRawOnce("QueryRowRaw", stmt)
    /\ UNCHANGED <<concVars, upsertVars, transactVars, mapVars, rawCommander, PlaceholderFormat, bb, rowVars>>

\* commandWrapper.Select up to its call of SelectRaw
Select ==
    /\ cpc = "idle"
    /\ \E b \in SqlizerResults : BuilderQuery("Select", b, TRUE)

\* commandWrapper.SelectRow: rowFromRes(w.Select(ctx, bb))
SelectRow ==
    /\ cpc = "idle"
    /\ \E b \in SqlizerResults : BuilderQuery("SelectRow", b, TRUE)

\* faulty variant: the error of a failed try is not kept
FirstErrorDropped(old, new) == Nil

\* if firstError == nil { firstError = err }
FirstError(old, new) == IF old = Nil THEN new ELSE old

\* if err == nil || err == sql.ErrNoRows || w.isTransaction { return rows, err }
SelectRawReturns(r) ==
    \/ r.err = Nil
    \/ r.err = ErrNoRows
    \/ rawCommander.isTransaction

\* one iteration of the loop of txWrapper.SelectRaw
SelectRawTry ==
    /\ cpc = "selectRaw"
    /\ LoopCond(selTries, rawCommander.RetryCount)
    /\ \E ans \in QueryAnswers(Len(sent) + 1) :
          /\ sent' = Send("query", statement, ans)
          /\ IF SelectRawReturns(QueryRawResult(statement, ans))
             THEN /\ Returned(op, QueryRawResult(statement, ans))
                  /\ UNCHANGED <<selTries, firstError>>
             ELSE /\ firstError' = FirstError(firstError,
                                              QueryRawResult(statement, ans).err)
                  /\ selTries' = selTries + 1
                  /\ UNCHANGED <<cpc, result, row>>
    /\ UNCHANGED <<concVars, upsertVars, transactVars, mapVars, rawCommander, PlaceholderFormat, op, bb, statement,
                   rowVars>>

\* the loop of txWrapper.SelectRaw ends: return nil, firstError (or rows, nil)
SelectRawExit ==
    /\ cpc = "selectRaw"
    /\ ~LoopCond(selTries, rawCommander.RetryCount)
    /\ Returned(op, IF firstError # Nil
                     THEN [val |-> Nil, err |-> firstError]
                     ELSE [val |-> Nil, err |-> Nil])
    /\ UNCHANGED <<concVars, upsertVars, transactVars, mapVars, rawCommander, PlaceholderFormat, op, bb, statement,
                   sent, selTries, firstError, rowVars>>

\* ------------------------------------------------------------- Row.Scan
\* faulty variant: the deferred Close is missing
NoDeferredClose(c) == c

\* defer r.Rows.Close()
DeferredClose(c) == [c EXCEPT !.closes = @ + 1]

\* return r.Rows.Close()
ExplicitClose(c) == [c EXCEPT !.closes = @ + 1]

\* one call of Row.Scan on r, given what Next, Err, Scan and Close of the
\* cursor answer: the cursor calls it makes, and what it returns
RowScanResult(r, next, errAns, scanAns, closeAns) ==
    IF r.err # Nil
    THEN [cursor |-> NoCalls, path |-> "priorError", err |-> ExistingRowError(r.err)]
    ELSE IF ~next
    THEN [cursor |-> DeferredClose([NoCalls EXCEPT !.nexts = 1, !.errs = 1]),
          path |-> IF errAns # Nil THEN "trailingError" ELSE "noRow",
          err |-> IF errAns # Nil THEN RowNextError(errAns) ELSE ErrNoRows]
    ELSE IF scanAns # Nil
    THEN [cursor |-> DeferredClose([NoCalls EXCEPT !.nexts = 1, !.scans = 1]),
          path |-> "scanError",
          err |-> RowScanError(scanAns)]
    ELSE [cursor |-> DeferredClose(ExplicitClose([NoCalls EXCEPT !.nexts = 1,
                                                                 !.scans = 1])),
          path |-> IF closeAns # Nil THEN "closeError" ELSE "found",
          err |-> closeAns]

CursorErrors == {Nil} \cup {DriverError(e) : e \in DriverErrors}

\* faulty variant: a closed cursor still yields rows
NextAnswersAfterClose(c) == BOOLEAN

\* what Next of a *sql.Rows can answer: false once the cursor is closed
NextAnswers(c) == IF c.closes > 0 THEN {FALSE} ELSE BOOLEAN

\* the calls made on a cursor so far, and those of one more call
AddCalls(c, d) ==
    [nexts |-> c.nexts + d.nexts, errs |-> c.errs + d.errs,
     scans |-> c.scans + d.scans, closes |-> c.closes + d.closes]

\* the caller scans the Row it was given, any number of times: the Row keeps
\* nothing between calls
RowScan ==
    /\ cpc \in {"returned", "scanned"}
    /\ op \in RowOps
    /\ row.err # Nil \/ row.Rows # Nil
    /\ scanCalls < MaxScans
    /\ \E next \in NextAnswers(cursor), errAns \in CursorErrors,
          scanAns \in CursorErrors, closeAns \in CursorErrors :
          LET r == RowScanResult(row, next, errAns, scanAns, closeAns) IN
          /\ cursor' = AddCalls(cursor, r.cursor)
          /\ scanned' =
                [path |-> r.path, err |-> r.err,
                 next |-> IF row.err # Nil THEN "none"
                          ELSE IF next THEN "row" ELSE "noRow",
                 cursorErr |-> IF row.err = Nil /\ ~next THEN errAns ELSE Nil]
    /\ scanCalls' = scanCalls + 1
    /\ cpc' = "scanned"
    /\ UNCHANGED <<concVars, upsertVars, transactVars, mapVars, rawCommander, PlaceholderFormat, op, bb, statement,
                   sent, selTries, firstError, result, row, columns, each>>

\* ---------------------------------------------------------- Row.Columns
\* Row.Columns on r, given what Columns of the cursor answers
RowColumnsResult(r, colAns) ==
    IF r.err # Nil
    THEN [onCursor |-> 0, err |-> ExistingRowColumnsError(r.err)]
    ELSE [onCursor |-> 1, err |-> colAns]

\* the caller asks the Row it was given for its columns
RowColumns ==
    /\ cpc \in {"returned", "scanned"}
    /\ op \in RowOps
    /\ row.err # Nil \/ row.Rows # Nil
    /\ columns.calls < MaxColumnsCalls
    /\ \E colAns \in CursorErrors :
          columns' = [calls |-> columns.calls + 1,
                      onCursor |-> columns.onCursor + RowColumnsResult(row, colAns).onCursor,
                      err |-> RowColumnsResult(row, colAns).err]
    /\ UNCHANGED <<concVars, upsertVars, transactVars, mapVars, rawCommander, PlaceholderFormat, op, cpc, bb,
                   statement, sent, selTries, firstError, result, row, cursor,
                   scanned, scanCalls, each>>

\* ------------------------------------------------------------ Rows.Each
\* the error the caller's fn returns
FnError == [kind |-> "fn"]

RowsOps == {"Query", "QueryRaw", "Select"}

\* Rows.Each over a cursor yielding n rows, where fn fails on row failAt (0:
\* never), given what Err and Close of the cursor answer: the cursor calls it
\* makes, the calls of fn, and what it returns
RowsEachResult(n, failAt, errAns, closeAns) ==
    IF failAt > 0
    THEN [cursor |-> [NoCalls EXCEPT !.nexts = failAt],
          path |-> "fnError", fnCalls |-> failAt, err |-> FnError]
    ELSE IF errAns # Nil
    THEN [cursor |-> [NoCalls EXCEPT !.nexts = n + 1, !.errs = 1, !.closes = 1],
          path |-> "trailingError", fnCalls |-> n, err |-> errAns]
    ELSE [cursor |-> [NoCalls EXCEPT !.nexts = n + 1, !.errs = 1, !.closes = 1],
          path |-> IF closeAns # Nil THEN "closeError" ELSE "end",
          fnCalls |-> n, err |-> closeAns]

\* the caller iterates the Rows it was given
RowsEach ==
    /\ cpc = "returned"
    /\ op \in RowsOps
    /\ result.err = Nil
    /\ result.val # Nil
    /\ \E n \in 0..MaxRows, errAns \in CursorErrors, closeAns \in CursorErrors :
          \E failAt \in 0..n :
             LET r == RowsEachResult(n, failAt, errAns, closeAns) IN
             /\ cursor' = r.cursor
             /\ each' = [path |-> r.path, fnCalls |-> r.fnCalls, err |-> r.err]
    /\ cpc' = "iterated"
    /\ UNCHANGED <<concVars, upsertVars, transactVars, mapVars, rawCommander, PlaceholderFormat, op, bb, statement,
                   sent, selTries, firstError, result, row, scanned, scanCalls,
                   columns>>

\* -------------------------------------------------------- struct mapper
MaxFields == 2          \* fields a record declares directly
MaxCols == 2            \* columns a cursor reports
MaxSrcs == 2            \* records handed to one InsertStruct call

ColumnNames == {"a", "b"}      \* the columns, and the sql tags naming them

\* fmt.Errorf("ScanStruct requires a pointer to a struct")
ScanStructRequiresPointer ==
    [kind |-> "errorf", format |-> "ScanStruct requires a pointer to a struct"]

\* fmt.Errorf("InsertStruct requires a pointer to a struct")
InsertStructRequiresPointer ==
    [kind |-> "errorf", format |-> "InsertStruct requires a pointer to a struct"]

\* fmt.Errorf("getting columns: %w", err)
GettingColumnsError(err) ==
    [kind |-> "errorf", format |-> "getting columns: %w", cause |-> err]

\* fmt.Errorf("No matching struct field for %s", name)
NoMatchingFieldError(name) ==
    [kind |-> "errorf", format |-> "No matching struct field for %s", arg |-> name]

\* fmt.Errorf("Length Mismatch on types")
LengthMismatchError == [kind |-> "errorf", format |-> "Length Mismatch on types"]

\* a field of a record type: its sql tag, whether it is an embedded record (by
\* value or by pointer), and then the fields of that record
Field(tag, kind, inner) == [tag |-> tag, kind |-> kind, inner |-> inner]
PlainField(tag) == Field(tag, "plain", << >>)

\* the fields a record may declare
FieldShapes ==
    {PlainField(t) : t \in ColumnNames \cup {"", "-"}}
        \cup {Field("", k, <<PlainField(t)>>) :
                 k \in {"embedded", "embeddedPtr"}, t \in ColumnNames}
        \cup {Field("", "embedded", <<PlainField("a"), PlainField("b")>>),
              Field("-", "embedded", <<PlainField("a")>>)}

SeqsUpTo(S, n) == UNION {[1..k -> S] : k \in 0..n}

\* reflect.ValueOf(v): its Kind, and for a pointer what it points to
StructPointer(fields) == [kind |-> "ptr", elem |-> "struct", fields |-> fields]
Kind(rv) == rv.kind
Elem(rv) == [kind |-> rv.elem, elem |-> "none", fields |-> rv.fields]

\* pointers to records
StructPointers == {StructPointer(f) : f \in SeqsUpTo(FieldShapes, MaxFields)}

\* what is not a pointer to a record: nil, a string, a pointer to a string, a
\* record passed by value, a nil pointer
NotStructPointers ==
    {NoValue,
     [kind |-> "string", elem |-> "none", fields |-> << >>],
     [kind |-> "ptr", elem |-> "string", fields |-> << >>],
     [kind |-> "struct", elem |-> "none", fields |-> <<PlainField("a")>>],
     [kind |-> "ptr", elem |-> "invalid", fields |-> << >>]}

IsStructPointer(v) == Kind(v) = "ptr" /\ Kind(Elem(v)) = "struct"

\* structCols[tagName] = fieldInterface
Put(structCols, tagName, addr) ==
    [c \in DOMAIN structCols \cup {tagName} |->
        IF c = tagName THEN addr ELSE structCols[c]]

\* faulty variant: an embedded record is walked with its parent's override
EmbeddedOverrideInherited(override) == override

\* the walkBaton of an embedded record: override: false
EmbeddedOverride(override) == FALSE

\* addNamed over the fields i.. of the record at path, in declaration order; a
\* field's address is its index path
RECURSIVE addNamed(_, _, _, _, _)
addNamed(structCols, override, fields, path, i) ==
    IF i > Len(fields) THEN structCols
    ELSE LET field == fields[i]
             addr == Append(path, i)
             walked ==
                 IF field.tag = "-" THEN structCols
                 ELSE IF field.kind \in {"embedded", "embeddedPtr"}
                 THEN addNamed(structCols, EmbeddedOverride(override),
                               field.inner, addr, 1)
                 ELSE IF field.tag = "" THEN structCols
                 ELSE IF override THEN Put(structCols, field.tag, addr)
                 ELSE IF field.tag \notin DOMAIN structCols
                 THEN Put(structCols, field.tag, addr)
                 ELSE structCols
         IN addNamed(walked, override, fields, path, i + 1)

\* structCols := map[string]interface{}{}
EmptyCols == [c \in {} |-> << >>]

\* faulty variant: the targets are listed against the cursor's order
ToScanReversed(structCols, cols) ==
    [idx \in DOMAIN cols |-> structCols[cols[Len(cols) + 1 - idx]]]

\* toScan[idx] = structCol
ToScan(structCols, cols) == [idx \in DOMAIN cols |-> structCols[cols[idx]]]

\* ScanStruct(s, d), given what Columns and Scan of s answer: the calls it
\* makes on s and what it returns
ScanStructResult(d, s) ==
    IF ~IsStructPointer(d)
    THEN [err |-> ScanStructRequiresPointer, columnsCalls |-> 0, scanCalls |-> 0,
          toScan |-> << >>]
    ELSE LET structCols == addNamed(EmptyCols, TRUE, d.fields, << >>, 1)
             cols == s.ColumnsVal
             missing == {idx \in DOMAIN cols : cols[idx] \notin DOMAIN structCols}
         IN IF s.ColumnsErr # Nil
            THEN [err |-> GettingColumnsError(s.ColumnsErr), columnsCalls |-> 1,
                  scanCalls |-> 0, toScan |-> << >>]
            ELSE IF missing # {}
            THEN [err |-> NoMatchingFieldError(
                             cols[CHOOSE idx \in missing :
                                     \A other \in missing : idx <= other]),
                  columnsCalls |-> 1, scanCalls |-> 0, toScan |-> << >>]
            ELSE [err |-> s.ScanErr, columnsCalls |-> 1, scanCalls |-> 1,
                  toScan |-> ToScan(structCols, cols)]

\* what a Scannable can answer
Scannables ==
    {[ColumnsVal |-> cols, ColumnsErr |-> Nil, ScanErr |-> e,
      columnsCalls |-> 0, scanCalls |-> 0, toScan |-> << >>] :
        cols \in SeqsUpTo(ColumnNames, MaxCols), e \in CursorErrors}
    \cup {[ColumnsVal |-> << >>, ColumnsErr |-> DriverError(e), ScanErr |-> Nil,
           columnsCalls |-> 0, scanCalls |-> 0, toScan |-> << >>] :
             e \in DriverErrors}

\* ScanStruct
ScanStruct ==
    /\ cpc = "idle"
    /\ dest = NoValue /\ src = NoScannable /\ srcs = << >>
    /\ \E d \in StructPointers \cup NotStructPointers, s \in Scannables :
          /\ dest' = d
          /\ src' = [s EXCEPT !.columnsCalls = ScanStructResult(d, s).columnsCalls,
                              !.scanCalls = ScanStructResult(d, s).scanCalls,
                              !.toScan = ScanStructResult(d, s).toScan]
          /\ mapErr' = ScanStructResult(d, s).err
    /\ op' = "ScanStruct"
    /\ cpc' = "mapped"
    /\ UNCHANGED <<concVars, upsertVars, transactVars, rawCommander, PlaceholderFormat, bb, statement, sent,
                   selTries, firstError, result, row, rowVars, srcs, builder>>

\* faulty variant: the column counts are not compared
LengthMismatchIgnored(names, structCols) == FALSE

\* len(names) != len(structCols)
LengthMismatch(names, structCols) == Len(names) # Cardinality(DOMAIN structCols)

\* the orders in which `for tagName := range structCols` can yield the names
NameOrders(structCols) ==
    {names \in [1..Cardinality(DOMAIN structCols) -> DOMAIN structCols] :
        \A i, j \in DOMAIN names : names[i] = names[j] => i = j}

\* the records a caller hands to InsertStruct
InsertRecords ==
    {r \in StructPointers : Len(r.fields) <= 1}
       \cup {StructPointer(<<PlainField("a"),
                             Field("", "embedded", <<PlainField("a")>>)>>),
             StructPointer(<<Field("", "embedded", <<PlainField("a")>>),
                             PlainField("a")>>)}
       \cup NotStructPointers

\* the loop of InsertStruct from record idx on, names being in the order the
\* first record's map yielded them
RECURSIVE InsertStructFrom(_, _, _, _)
InsertStructFrom(records, idx, names, rows) ==
    IF idx > Len(records)
    THEN [builder |-> [kind |-> "InsertBuilder", Columns |-> names, Values |-> rows],
          err |-> Nil]
    ELSE IF ~IsStructPointer(records[idx])
    THEN [builder |-> NoBuilder, err |-> InsertStructRequiresPointer]
    ELSE LET structCols == addNamed(EmptyCols, FALSE, records[idx].fields, << >>, 1)
             values == [i \in DOMAIN names |->
                           IF names[i] \in DOMAIN structCols
                           THEN <<idx>> \o structCols[names[i]]
                           ELSE << >>]
         IN IF idx > 1 /\ LengthMismatch(names, structCols)
            THEN [builder |-> NoBuilder, err |-> LengthMismatchError]
            ELSE InsertStructFrom(records, idx + 1, names, Append(rows, values))

\* the names the first record yields, in every order its map can yield them
FirstNames(records) ==
    IF IsStructPointer(records[1])
    THEN NameOrders(addNamed(EmptyCols, FALSE, records[1].fields, << >>, 1))
    ELSE {<< >>}

\* the InsertBuilder's ToSql: one placeholder for each value
RECURSIVE Placeholders(_, _)
Placeholders(rows, i) ==
    IF i > Len(rows) THEN << >>
    ELSE <<"(">> \o [k \in DOMAIN rows[i] |-> "?"] \o <<")">>
            \o Placeholders(rows, i + 1)

ToSql(b) ==
    [str |-> <<"INSERT INTO t (">> \o b.Columns \o <<") VALUES ">>
                \o Placeholders(b.Values, 1),
     err |-> Nil]

\* commandWrapper.InsertStruct: InsertStruct, and Exec of what it built
InsertStruct ==
    /\ cpc = "idle"
    /\ dest = NoValue /\ src = NoScannable /\ srcs = << >>
    /\ op' = "InsertStruct"
    /\ \E records \in SeqsUpTo(InsertRecords, MaxSrcs) :
          /\ records # << >>
          /\ srcs' = records
          /\ \E names \in FirstNames(records) :
                LET built == InsertStructFrom(records, 1, names, << >>) IN
                /\ builder' = built.builder
                /\ mapErr' = built.err
                /\ IF built.err # Nil
                   THEN /\ Returned("InsertStruct", [val |-> Nil, err |-> built.err])
                        /\ UNCHANGED <<bb, statement, sent>>
                   ELSE /\ bb' = ToSql(built.builder)
                        /\ IF Prepare(ToSql(built.builder)).err # Nil
                           THEN /\ Returned("InsertStruct",
                                      [val |-> Nil,
                                       err |-> Prepare(ToSql(built.builder)).err])
                                /\ UNCHANGED <<statement, sent>>
                           ELSE \E ans \in ExecAnswers :
                                   /\ statement' = Prepare(ToSql(built.builder)).str
                                   /\ sent' = Send("exec",
                                                   Prepare(ToSql(built.builder)).str, ans)
                                   /\ Returned("InsertStruct",
                                         ExecRawResult(Prepare(ToSql(built.builder)).str,
                                                       ans))
    /\ UNCHANGED <<concVars, upsertVars, transactVars, rawCommander, PlaceholderFormat, selTries, firstError,
                   rowVars, dest, src>>

\* --------------------------------------------------------- Row.ScanStruct
\* fmt.Errorf("scan struct: %w", err)
ScanStructError(err) ==
    [kind |-> "errorf", format |-> "scan struct: %w", cause |-> err]

\* the destinations a caller hands to Row.ScanStruct
RowDests == {StructPointer(<<PlainField("a")>>)} \cup NotStructPointers

\* the Row r as the Scannable of ScanStruct: what its Columns and its Scan
\* answer, given what the cursor answers
RowAsScannable(r, cols, colAns, scan) ==
    [ColumnsVal |-> IF RowColumnsResult(r, colAns).err # Nil THEN << >> ELSE cols,
     ColumnsErr |-> RowColumnsResult(r, colAns).err,
     ScanErr |-> scan.err,
     columnsCalls |-> 0, scanCalls |-> 0, toScan |-> << >>]

\* the cursor answers only the calls that are made: Columns is asked of a
\* record pointer alone, Scan only once every column has found its field
ColumnsAnswers(d) == IF IsStructPointer(d) THEN CursorErrors ELSE {Nil}

ColumnsValues(d, colAns) ==
    IF IsStructPointer(d) /\ RowColumnsResult(row, colAns).err = Nil
    THEN SeqsUpTo(ColumnNames, 1) ELSE {<< >>}

ReachesScan(d, cols, colAns) ==
    ScanStructResult(d, RowAsScannable(row, cols, colAns, [err |-> Nil])).scanCalls = 1

ScanAnswers(d, cols, colAns) ==
    IF ReachesScan(d, cols, colAns) THEN CursorErrors ELSE {Nil}

\* the caller scans the Row it was given into a record
RowScanStruct ==
    /\ cpc = "returned"
    /\ op \in RowOps
    /\ row.err # Nil \/ row.Rows # Nil
    /\ dest = NoValue /\ src = NoScannable
    /\ \E d \in RowDests :
       \E colAns \in ColumnsAnswers(d) :
       \E cols \in ColumnsValues(d, colAns) :
       \E next \in IF ReachesScan(d, cols, colAns) THEN NextAnswers(cursor) ELSE {TRUE} :
       \E errAns \in ScanAnswers(d, cols, colAns) :
       \E scanAns \in ScanAnswers(d, cols, colAns) :
       \E closeAns \in ScanAnswers(d, cols, colAns) :
          LET scan == RowScanResult(row, next, errAns, scanAns, closeAns)
              s == RowAsScannable(row, cols, colAns, scan)
              res == ScanStructResult(d, s)
          IN /\ dest' = d
             /\ src' = [ColumnsVal |-> IF res.columnsCalls = 1 THEN s.ColumnsVal
                                        ELSE << >>,
                         ColumnsErr |-> IF res.columnsCalls = 1 THEN s.ColumnsErr
                                        ELSE Nil,
                         ScanErr |-> IF res.scanCalls = 1 THEN s.ScanErr ELSE Nil,
                         columnsCalls |-> res.columnsCalls,
                         scanCalls |-> res.scanCalls,
                         toScan |-> res.toScan]
             /\ mapErr' = IF res.err # Nil THEN ScanStructError(res.err) ELSE Nil
             /\ columns' =
                   IF res.columnsCalls = 0 THEN columns
                   ELSE [calls |-> columns.calls + 1,
                         onCursor |-> columns.onCursor
                                         + RowColumnsResult(row, colAns).onCursor,
                         err |-> RowColumnsResult(row, colAns).err]
             /\ IF res.scanCalls = 0
                THEN UNCHANGED <<cursor, scanned, scanCalls>>
                ELSE /\ cursor' = AddCalls(cursor, scan.cursor)
                     /\ scanCalls' = scanCalls + 1
                     /\ scanned' =
                           [path |-> scan.path, err |-> scan.err,
                            next |-> IF row.err # Nil THEN "none"
                                     ELSE IF next THEN "row" ELSE "noRow",
                            cursorErr |-> IF row.err = Nil /\ ~next THEN errAns
                                          ELSE Nil]
    /\ cpc' = "structScanned"
    /\ UNCHANGED <<concVars, upsertVars, transactVars, rawCommander, PlaceholderFormat, op, bb, statement,
                   sent, selTries, firstError, result, row, each, srcs, builder>>

CmdNext ==
    \/ Exec
    \/ ExecRaw
    \/ InsertRow
    \/ Query
    \/ QueryRow
    \/ QueryRaw
    \/ QueryRowRaw
    \/ Select
    \/ SelectRow
    \/ SelectRawTry
    \/ SelectRawExit
    \/ RowScan
    \/ RowColumns
    \/ RowsEach
    \/ RowScanStruct

CmdSpec == CmdInit /\ [][CmdNext]_vars

\* a commandWrapper on which no method has been called, and no mapper call
MapInit ==
    /\ RetryCount = MaxRetryCount
    /\ ShouldRetryTransaction = [isNil |-> TRUE, accepts |-> {}]
    /\ Retryable = FALSE
    /\ PlaceholderFormat \in PlaceholderFormats
    /\ rawCommander = RawDirect
    /\ TransactStart
    /\ NoCommand
    /\ NoMapping
    /\ NoUpsert
    /\ NoConcurrentCalls

MapNext ==
    \/ ScanStruct
    \/ InsertStruct

MapSpec == MapInit /\ [][MapNext]_vars

\* --------------------------------------------------- default retry policy
\* the SQLSTATE codes the driver reports: serialization failure, unique violation
SqlStates == {"40001", "23505"}

\* a driver error that carries a SQLSTATE, as *pq.Error does with Get('C')
PqError(code) == [kind |-> "pq", code |-> code]

\* defaultShouldRetry: err itself must have Get(byte) string
defaultShouldRetry(err) == err.kind = "pq" /\ err.code = "40001"

\* what Exec inside the callback can return when the driver fails it
CallbackExecFailures ==
    {ExecFailure(PqError(code), stmt) : code \in SqlStates, stmt \in Statements}

\* the errors a callback can end with, what Exec returned to it included
DefaultCallbackResults ==
    CallbackResults \cup CallbackExecFailures \cup {PqError(code) : code \in SqlStates}

\* ShouldRetryTransaction: defaultShouldRetry, as New and NewPostgres install it
DefaultPolicy ==
    [isNil |-> FALSE, accepts |-> {err \in DefaultCallbackResults : defaultShouldRetry(err)}]

\* the callback's Exec is failed by the driver, and the callback returns what
\* Exec returned, or the driver's error itself
CbExecFailed ==
    /\ pc = "callback"
    /\ handles[tx].stmts < MaxStmts
    /\ handles' = [handles EXCEPT ![tx].stmts = @ + 1]
    /\ \E err \in CallbackExecFailures \cup {PqError(code) : code \in SqlStates} :
          AfterCallback(err)
    /\ cbOutcome' = "error"
    /\ cbFails' = cbFails + 1
    /\ UNCHANGED <<concVars, upsertVars, config, cmdVars, mapVars, ctxVars, tries, exitWithError, tx, returnErr,
                   resets, begins, beginOks, cbCalls, panics, panicValue, commitCalls,
                   commitOks, rollbackCalls, driverRes, lastFailure, exit>>

\* a Wrapper as New makes it, but for the RetryCount
DefaultInit ==
    /\ RetryCount \in 0..MaxRetryCount
    /\ ShouldRetryTransaction = DefaultPolicy
    /\ Retryable = FALSE
    /\ TransactStart
    /\ rawCommander = NoCommander
    /\ PlaceholderFormat = "none"
    /\ NoCommand
    /\ NoMapping
    /\ NoUpsert
    /\ NoConcurrentCalls

DefaultNext ==
    \/ Begin
    \/ LoopExit
    \/ CbExecRaw
    \/ CbExecFailed
    \/ Reset
    \/ CbReturn
    \/ CbPanic
    \/ Rollback
    \/ Commit

DefaultSpec == DefaultInit /\ [][DefaultNext]_vars

\* ------------------------------------------------------------ UpsertBuilder
MaxPairs == 2
MaxWheres == 1
MaxToSqlCalls == 2

UpsertTables == {"", "table"}
UpsertColumns == {"id", "data"}

UpsertTableError == [kind |-> "errorf", format |-> "upsert statements must specify a table"]
UpsertKeysError ==
    [kind |-> "errorf", format |-> "upsert statements must have at least one key"]
UpsertValuesError ==
    [kind |-> "errorf", format |-> "upsert statements must have at least one value"]
DuplicateColumnError(c) ==
    [kind |-> "errorf", format |-> "duplicate column in keys and values: %s", arg |-> c]
UpdateSetClauseError ==
    [kind |-> "errorf", format |-> "update statements must have at least one Set clause"]

fieldPair(column, value) == [column |-> column, value |-> value]

\* sqrl.Update("_"): the builder updateStatement points to; Set and Where
\* append to it in place
UpdateBuilder(setClauses, whereParts) ==
    [setClauses |-> setClauses, whereParts |-> whereParts]

\* Upsert(into)
Upsert(into) ==
    [into |-> into, keys |-> << >>, vals |-> << >>,
     updateStatement |-> UpdateBuilder(<< >>, << >>)]

\* strings.Join, on a text kept as its pieces
RECURSIVE Join(_, _)
Join(elems, sep) ==
    IF elems = << >> THEN << >>
    ELSE IF Len(elems) = 1 THEN elems
    ELSE <<elems[1], sep>> \o Join(Tail(elems), sep)

\* the value the caller supplies with its n-th Key or Set call
NextValue(b) == Len(b.keys) + Len(b.vals) + 1

\* the Set clauses of an UpdateBuilder as text: c = EXCLUDED.c, ...
RECURSIVE SetClausesText(_, _)
SetClausesText(setClauses, i) ==
    IF i > Len(setClauses) THEN << >>
    ELSE (IF i > 1 THEN <<", ">> ELSE << >>)
            \o <<setClauses[i], " = ", "EXCLUDED.", setClauses[i]>>
            \o SetClausesText(setClauses, i + 1)

\* the UpdateBuilder's ToSql: UPDATE _ SET ... [WHERE ...], the args of its
\* where parts, and an error when it has no Set clause
UpdateToSql(u) ==
    IF u.setClauses = << >>
    THEN [str |-> << >>, args |-> << >>, err |-> UpdateSetClauseError]
    ELSE [str |-> <<"UPDATE _ ", "SET ">>
                     \o SetClausesText(u.setClauses, 1)
                     \o (IF u.whereParts = << >> THEN << >>
                         ELSE <<" WHERE ">>
                                 \o Join([i \in DOMAIN u.whereParts |-> "updated > ?"],
                                         " AND ")),
          args |-> u.whereParts,
          err |-> Nil]

\* the two loops over b.keys and b.vals: the columns already seen, the error
\* the latest duplicate left in err, and the Set clauses added to the
\* updateStatement
RECURSIVE UpsertColumnsLoop(_, _, _, _)
UpsertColumnsLoop(pairs, i, setMap, err) ==
    IF i > Len(pairs) THEN [setMap |-> setMap, err |-> err]
    ELSE UpsertColumnsLoop(pairs, i + 1, setMap \cup {pairs[i].column},
                           IF pairs[i].column \in setMap
                           THEN DuplicateColumnError(pairs[i].column)
                           ELSE err)

\* updateStatement.Set(set.column, ...) for every pair of b.vals
AfterSetLoop(b) ==
    UpdateBuilder(b.updateStatement.setClauses
                     \o [i \in DOMAIN b.vals |-> b.vals[i].column],
                  b.updateStatement.whereParts)

\* sqrl.Insert(into).Columns(...).Values(...).Suffix(...).ToSql()
InsertToSql(into, columnList, values, suffix, suffixArgs) ==
    [str |-> <<"INSERT INTO ", into, " (">> \o Join(columnList, ",") \o <<") VALUES (">>
                \o Join([i \in DOMAIN values |-> "?"], ",") \o <<") ">> \o suffix,
     args |-> values \o suffixArgs,
     err |-> Nil]

\* UpsertBuilder.ToSql: what it returns, and the updateStatement it leaves
UpsertToSql(b) ==
    IF b.into = ""
    THEN [str |-> << >>, args |-> << >>, err |-> UpsertTableError,
          updateStatement |-> b.updateStatement]
    ELSE IF b.keys = << >>
    THEN [str |-> << >>, args |-> << >>, err |-> UpsertKeysError,
          updateStatement |-> b.updateStatement]
    ELSE IF b.vals = << >>
    THEN [str |-> << >>, args |-> << >>, err |-> UpsertValuesError,
          updateStatement |-> b.updateStatement]
    ELSE LET pairs == b.keys \o b.vals
             loops == UpsertColumnsLoop(pairs, 1, {}, Nil)
             columnList == [i \in DOMAIN pairs |-> pairs[i].column]
             values == [i \in DOMAIN pairs |-> pairs[i].value]
             keyList == [i \in DOMAIN b.keys |-> b.keys[i].column]
             updateStatement == AfterSetLoop(b)
             \* updateString, suffixArgs, err := updateStatement.ToSql()
             update == UpdateToSql(updateStatement)
             suffix == <<"ON CONFLICT (">> \o Join(keyList, ",") \o <<") DO UPDATE ">>
                          \o Tail(update.str)
             insert == InsertToSql(b.into, columnList, values, suffix, update.args)
         IN IF update.err # Nil
            THEN [str |-> << >>, args |-> << >>, err |-> update.err,
                  updateStatement |-> updateStatement]
            ELSE [str |-> insert.str, args |-> insert.args, err |-> insert.err,
                  updateStatement |-> updateStatement]

\* b.Key(column, value)
Key ==
    /\ Len(upsert.keys) < MaxPairs
    /\ \E column \in UpsertColumns :
          upsert' = [upsert EXCEPT
                        !.keys = Append(@, fieldPair(column, NextValue(upsert)))]
    /\ sqlPrev' = NoSql /\ sqlLast' = NoSql
    /\ UNCHANGED <<concVars, transactVars, cmdVars, mapVars, toSqlCalls>>

\* b.Set(column, value)
Set ==
    /\ Len(upsert.vals) < MaxPairs
    /\ \E column \in UpsertColumns :
          upsert' = [upsert EXCEPT
                        !.vals = Append(@, fieldPair(column, NextValue(upsert)))]
    /\ sqlPrev' = NoSql /\ sqlLast' = NoSql
    /\ UNCHANGED <<concVars, transactVars, cmdVars, mapVars, toSqlCalls>>

\* b.Where("updated > ?", 55)
Where ==
    /\ Len(upsert.updateStatement.whereParts) < MaxWheres
    /\ upsert' = [upsert EXCEPT !.updateStatement.whereParts = Append(@, 55)]
    /\ sqlPrev' = NoSql /\ sqlLast' = NoSql
    /\ UNCHANGED <<concVars, transactVars, cmdVars, mapVars, toSqlCalls>>

\* b.ToSql()
UpsertToSqlCall ==
    /\ toSqlCalls < MaxToSqlCalls
    /\ toSqlCalls' = toSqlCalls + 1
    /\ upsert' = [upsert EXCEPT !.updateStatement = UpsertToSql(upsert).updateStatement]
    /\ sqlPrev' = sqlLast
    /\ sqlLast' = [str |-> UpsertToSql(upsert).str,
                   args |-> UpsertToSql(upsert).args,
                   err |-> UpsertToSql(upsert).err]
    /\ UNCHANGED <<concVars, transactVars, cmdVars, mapVars>>

UpsertInit ==
    /\ RetryCount = MaxRetryCount
    /\ ShouldRetryTransaction = [isNil |-> TRUE, accepts |-> {}]
    /\ Retryable = FALSE
    /\ PlaceholderFormat = "none"
    /\ rawCommander = NoCommander
    /\ TransactStart
    /\ NoCommand
    /\ NoMapping
    /\ upsert \in {Upsert(into) : into \in UpsertTables}
    /\ sqlPrev = NoSql
    /\ sqlLast = NoSql
    /\ toSqlCalls = 0
    /\ NoConcurrentCalls

UpsertNext ==
    \/ Key
    \/ Set
    \/ Where
    \/ UpsertToSqlCall

UpsertSpec == UpsertInit /\ [][UpsertNext]_vars

\* --------------------------------------------- concurrent Transact calls
\* the goroutines calling Transact on one Wrapper
Invocations == {1, 2}

\* the largest RetryCount of a Wrapper shared by concurrent calls
MaxSharedRetryCount == 2

NoTx == << >>
NoCommandWrapper == << >>

\* the locals of one Transact call before its first loop iteration
TransactLocals ==
    [pc |-> "loop", tries |-> 0, exitWithError |-> Nil, tx |-> NoTx,
     commander |-> NoCommandWrapper, cbErr |-> Nil, resets |-> 0, returnErr |-> Nil]

\* the *sql.Tx db.BeginTx hands to invocation i in its attempt n
NewTx(i, n) ==
    [beganBy |-> i, attempt |-> n, state |-> "open", stmtsBy |-> {},
     finishedBy |-> {}]

\* faulty variant: the txWrapper is held by the Wrapper, every invocation
\* reaching the one of invocation 1
TxOfWrapper(i) == calls[1].tx

\* txWrapped.tx of invocation i: txWrapped is a local of its loop iteration
TxOf(i) == calls[i].tx

\* the handles some txWrapper still refers to
Referenced(p, c) ==
    [h \in {c[j].tx : j \in Invocations} \cap DOMAIN p |-> p[h]]

\* tx.Rollback() on handle h by invocation i answering res
TxRollback(p, h, i, res) ==
    [p EXCEPT ![h] =
        [@ EXCEPT !.finishedBy = @ \cup {i},
                  !.state = IF @ # "open" THEN @
                            ELSE IF res = Nil THEN "rolledback"
                            ELSE "rollbackFailed"]]

\* tx.Commit() on handle h by invocation i answering res
TxCommit(p, h, i, res) ==
    [p EXCEPT ![h] =
        [@ EXCEPT !.finishedBy = @ \cup {i},
                  !.state = IF @ # "open" THEN @
                            ELSE IF res = Nil THEN "committed"
                            ELSE "commitFailed"]]

\* what db.BeginTx can answer
BeginTxAnswers == {Nil, DriverError("e1")}

\* what Commit and Rollback can answer on handle h
TxAnswers(h) ==
    IF pool[h].state # "open" THEN {ErrTxDone}
    ELSE {Nil, DriverError("e1")}

\* what the guarded callback invocation can give: nil, or the error the
\* callback returned or its panic was turned into
CallbackEnds == {Nil, CallbackError("cbA")}

\* one loop iteration of invocation i up to the callback: fresh txWrapper and
\* commandWrapper, then begin
TransactBegin(i) ==
    /\ calls[i].pc = "loop"
    /\ LoopCond(calls[i].tries, RetryCount)
    /\ \E res \in BeginTxAnswers :
          LET id == <<i, calls[i].tries, 0>>
              next == IF res # Nil
                      THEN [calls EXCEPT ![i] =
                               [@ EXCEPT !.tx = NoTx,
                                         !.commander = <<i, calls[i].tries>>,
                                         !.cbErr = Nil,
                                         !.exitWithError = BeginError(res),
                                         !.tries = @ + 1]]
                      ELSE [calls EXCEPT ![i] =
                               [@ EXCEPT !.tx = id,
                                         !.commander = <<i, calls[i].tries>>,
                                         !.cbErr = Nil,
                                         !.resets = 0,
                                         !.pc = "callback"]]
          IN /\ calls' = next
             /\ pool' = IF res # Nil THEN Referenced(pool, next)
                        ELSE Referenced(pool, next) @@ (id :> NewTx(i, calls[i].tries))
    /\ UNCHANGED <<upsertVars, transactVars, cmdVars, mapVars>>

\* the loop condition of invocation i fails: return exitWithError
TransactLoopExit(i) ==
    /\ calls[i].pc = "loop"
    /\ ~LoopCond(calls[i].tries, RetryCount)
    /\ calls' = [calls EXCEPT ![i] = [@ EXCEPT !.pc = "done",
                                               !.returnErr = calls[i].exitWithError]]
    /\ UNCHANGED <<upsertVars, transactVars, cmdVars, mapVars, pool>>

\* the callback of invocation i sends a statement through the Commander it
\* was handed
CallbackExec(i) ==
    /\ calls[i].pc = "callback"
    /\ TxOf(i) # NoTx
    /\ pool' = [pool EXCEPT ![TxOf(i)].stmtsBy =
                   @ \cup {[by |-> i, attempt |-> calls[i].tries,
                            commander |-> calls[i].commander]}]
    /\ UNCHANGED <<upsertVars, transactVars, cmdVars, mapVars, calls>>

\* the callback of invocation i calls Reset on its Commander
CallbackReset(i) ==
    /\ calls[i].pc = "callback"
    /\ TxOf(i) # NoTx
    /\ calls[i].resets < MaxResets
    /\ \E rb \in TxAnswers(TxOf(i)), res \in BeginTxAnswers :
          LET id == <<i, calls[i].tries, calls[i].resets + 1>>
              rolled == TxRollback(pool, TxOf(i), i, rb)
              next == [calls EXCEPT ![i] =
                          [@ EXCEPT !.resets = @ + 1,
                                    !.tx = IF rb = Nil /\ res = Nil THEN id ELSE @]]
          IN /\ calls' = next
             /\ pool' = IF rb = Nil /\ res = Nil
                        THEN Referenced(rolled, next) @@ (id :> NewTx(i, calls[i].tries))
                        ELSE rolled
    /\ UNCHANGED <<upsertVars, transactVars, cmdVars, mapVars>>

\* the guarded callback invocation of invocation i ends
CallbackDone(i) ==
    /\ calls[i].pc = "callback"
    /\ \E err \in CallbackEnds :
          calls' = [calls EXCEPT ![i] =
                       [@ EXCEPT !.cbErr = err,
                                 !.pc = IF err # Nil THEN "rollback" ELSE "commit"]]
    /\ UNCHANGED <<upsertVars, transactVars, cmdVars, mapVars, pool>>

\* the callback of invocation i gave an error: roll back, then retry or return
TransactRollback(i) ==
    /\ calls[i].pc = "rollback"
    /\ TxOf(i) # NoTx
    /\ \E res \in TxAnswers(TxOf(i)) :
          /\ pool' = TxRollback(pool, TxOf(i), i, res)
          /\ calls' = [calls EXCEPT ![i] =
                IF res # Nil
                THEN [@ EXCEPT !.pc = "done", !.returnErr = RollbackError(res)]
                ELSE IF ShouldRetry(calls[i].cbErr)
                THEN [@ EXCEPT !.pc = "loop", !.exitWithError = calls[i].cbErr,
                               !.tries = @ + 1]
                ELSE [@ EXCEPT !.pc = "done",
                               !.returnErr = CallbackFailure(calls[i].cbErr)]]
    /\ UNCHANGED <<upsertVars, transactVars, cmdVars, mapVars>>

\* the callback of invocation i gave nil: commit, then return nil or retry
TransactCommit(i) ==
    /\ calls[i].pc = "commit"
    /\ TxOf(i) # NoTx
    /\ \E res \in TxAnswers(TxOf(i)) :
          /\ pool' = TxCommit(pool, TxOf(i), i, res)
          /\ calls' = [calls EXCEPT ![i] =
                IF res # Nil
                THEN [@ EXCEPT !.pc = "loop",
                               !.exitWithError =
                                  CommitError(calls[i].tries + 1, RetryCount, res),
                               !.tries = @ + 1]
                ELSE [@ EXCEPT !.pc = "done", !.returnErr = Nil]]
    /\ UNCHANGED <<upsertVars, transactVars, cmdVars, mapVars>>

ConcInit ==
    /\ RetryCount \in 0..MaxSharedRetryCount
    /\ ShouldRetryTransaction \in
          {[isNil |-> TRUE, accepts |-> {}],
           [isNil |-> FALSE, accepts |-> CallbackResults]}
    /\ Retryable = FALSE
    /\ TransactStart
    /\ rawCommander = NoCommander
    /\ PlaceholderFormat = "none"
    /\ NoCommand
    /\ NoMapping
    /\ NoUpsert
    /\ calls = [i \in Invocations |-> TransactLocals]
    /\ pool = [h \in {} |-> NewTx(1, 0)]

ConcNext ==
    \E i \in Invocations :
       \/ TransactBegin(i)
       \/ TransactLoopExit(i)
       \/ CallbackExec(i)
       \/ CallbackReset(i)
       \/ CallbackDone(i)
       \/ TransactRollback(i)
       \/ TransactCommit(i)

ConcSpec == ConcInit /\ [][ConcNext]_vars

\* ================================================================ claims
\* the predicate accepts err (read from the configuration, not from ShouldRetry)
Accepted(err) ==
    /\ ~ShouldRetryTransaction.isNil
    /\ err \in ShouldRetryTransaction.accepts

\* Transact's own Rollback call answered an error
RollbackHasFailed == driverRes.call = "rollback" /\ driverRes.res # Nil

\* the latest callback invocation returned an error the predicate rejects,
\* and Transact has returned
RejectedErrorReturned ==
    /\ pc = "done"
    /\ cbOutcome = "error"
    /\ ~Accepted(cbErr)

\* ---------------------------------------------------------------- C1
\* C1 as stated: whenever the callback returned an error the predicate rejects,
\* that attempt's handle got exactly one rollback and no commit, and Transact
\* returned the callback's error itself.
C1_Original ==
    RejectedErrorReturned =>
        /\ handles[tx].rollbacks = 1
        /\ handles[tx].commits = 0
        /\ returnErr = cbErr

C1_State ==
    (RejectedErrorReturned /\ ~RollbackHasFailed) =>
        /\ handles[tx].rollbacks = 1
        /\ handles[tx].state = "rolledback"
        /\ \A h \in DOMAIN handles : handles[h].commits = 0
        /\ returnErr = cbErr
        /\ exit = "callbackError"

C1_NoFurtherBegin ==
    (cbOutcome = "error" /\ ~Accepted(cbErr) /\ pc \in {"rollback", "done"}) =>
        /\ begins' = begins
        /\ cbCalls' = cbCalls
        /\ commitCalls' = commitCalls
        /\ pc' = "done"

\* C1 (amended): when the callback returns an error that ShouldRetryTransaction
\* rejects and the rollback of the attempt succeeds, rollback was issued exactly
\* once on the attempt's handle, no commit was issued, no further begin or
\* callback invocation follows, and Transact returns the callback's own error.
C1_Theorem == []C1_State /\ [][C1_NoFurtherBegin]_vars

\* a rejected callback error is returned although an earlier attempt recorded another
C1_Witness ==
    /\ RejectedErrorReturned
    /\ ~RollbackHasFailed
    /\ returnErr = cbErr
    /\ exitWithError # Nil
    /\ exitWithError # cbErr

C3_Contained ==
    cbOutcome = "panic" =>
        /\ pc \in {"rollback", "loop", "done"}
        /\ pc = "rollback" =>
              (cbErr # Nil /\ TextContains(cbErr, panicValue) /\ Unwrap(cbErr) = Nil)

C3_RollbackStep ==
    (pc = "rollback" /\ cbOutcome = "panic") =>
        /\ handles'[tx].rollbacks = handles[tx].rollbacks + 1
        /\ handles'[tx].commits = 0
        /\ commitCalls' = commitCalls
        /\ IF driverRes'.res # Nil
           THEN pc' = "done" /\ returnErr' = RollbackError(driverRes'.res)
           ELSE IF Accepted(cbErr)
           THEN pc' = "loop" /\ returnErr' = returnErr /\ lastFailure'.err = cbErr
           ELSE /\ pc' = "done"
                /\ returnErr' = cbErr
                /\ TextContains(returnErr', panicValue)

C4_PanicIsTerminal ==
    [][panics > 0 => (cbCalls' = cbCalls /\ begins' = begins)]_vars

\* ---------------------------------------------------------------- C5
C5_RetryStep(rolledBack) ==
    (/\ pc = "rollback"
     /\ cbOutcome = "error"
     /\ Accepted(cbErr)
     /\ tries + 1 < RetryCount
     /\ rolledBack) =>
        /\ handles'[tx].state = "rolledback"
        /\ pc' = "loop"
        /\ tries' = tries + 1
        /\ tries' < RetryCount
        /\ returnErr' = returnErr
        /\ exit' = "running"

C5_NewAttempt ==
    (pc = "loop" /\ tries < RetryCount) =>
        /\ begins' = begins + 1
        /\ \/ pc' = "callback" /\ cbCalls' = cbCalls + 1 /\ handles' = <<NewHandle>>
           \/ pc' = "loop" /\ cbCalls' = cbCalls /\ lastFailure'.stage = "begin"

C5_LaterSuccess ==
    exit = "committed" => (pc = "done" /\ returnErr = Nil)

\* C5 as stated: a retryable callback error with attempts left always leads to
\* a rolled-back handle and a new attempt.
C5_Original == [][C5_RetryStep(TRUE)]_vars /\ []C5_LaterSuccess

\* C5 (amended): when the callback returns an error that ShouldRetryTransaction
\* accepts, the rollback of the attempt succeeds and fewer than RetryCount
\* attempts have been made, Transact issues a new begin and, when it succeeds,
\* invokes the callback again; when a later attempt's callback and commit
\* succeed Transact returns nil, not the earlier retryable error.
C5_Theorem ==
    /\ [][C5_RetryStep(driverRes'.res = Nil)]_vars
    /\ [][C5_NewAttempt]_vars
    /\ []C5_LaterSuccess

\* a retried callback error followed by a successful attempt
C5_Witness ==
    /\ exit = "committed"
    /\ returnErr = Nil
    /\ exitWithError \in {CallbackError(c) : c \in CallbackErrors}

\* ---------------------------------------------------------------- C6
IsCommitError(err) ==
    /\ "format" \in DOMAIN err
    /\ err.format = "committing transaction: (%d/%d) %w"

C6_CommitFailureStep ==
    (pc = "commit" /\ driverRes'.res # Nil) =>
        /\ pc' = "loop"
        /\ tries' = tries + 1
        /\ returnErr' = returnErr
        /\ exit' = "running"
        /\ lastFailure'.err = CommitError(tries + 1, RetryCount, driverRes'.res)

C6_ReturnedOnlyWhenExhausted ==
    (pc = "done" /\ IsCommitError(returnErr)) =>
        /\ exit = "exhausted"
        /\ tries = RetryCount

C7_FailedCommitNotRetried ==
    /\ [][commitCalls > commitOks => cbCalls' = cbCalls]_vars
    /\ []((pc = "done" /\ commitCalls > commitOks) => returnErr # Nil)

\* ---------------------------------------------------------------- C8
C8_RollbackFailureStep ==
    (pc = "rollback" /\ driverRes'.res # Nil) =>
        /\ pc' = "done"
        /\ returnErr' = RollbackError(driverRes'.res)
        /\ Unwrap(returnErr') = driverRes'.res

C8_NothingAfter ==
    RollbackHasFailed =>
        /\ begins' = begins
        /\ cbCalls' = cbCalls
        /\ commitCalls' = commitCalls
        /\ handles' = handles

\* C8: when the rollback after a callback error fails, Transact returns at once
\* an error wrapping the rollback error; no begin, callback invocation, commit
\* or other driver call follows, even for a retryable error with attempts left.
C8_Theorem == [][C8_RollbackFailureStep]_vars /\ [][C8_NothingAfter]_vars

\* the rollback failed for a retryable error while attempts were left
C8_Witness ==
    /\ pc = "done"
    /\ RollbackHasFailed
    /\ Accepted(cbErr)
    /\ tries + 1 < RetryCount
    /\ returnErr = RollbackError(driverRes.res)

\* ---------------------------------------------------------------- C9
\* C9: the retry loop issues at most RetryCount begins, one per iteration, and
\* exactly RetryCount when every attempt ended in a retry-eligible failure; the
\* callback is invoked at most RetryCount times, once per successful begin.
C9_Theorem ==
    /\ begins <= RetryCount
    /\ cbCalls <= RetryCount
    /\ cbCalls = beginOks
    /\ beginOks <= begins
    /\ pc = "loop" => begins = tries
    /\ pc \in {"callback", "rollback", "commit"} => begins = tries + 1
    /\ exit = "exhausted" => (begins = RetryCount /\ tries = RetryCount)

\* all attempts used up, the callback having run in each of them
C9_Witness ==
    /\ exit = "exhausted"
    /\ RetryCount >= 2
    /\ begins = RetryCount
    /\ cbCalls = RetryCount

\* ---------------------------------------------------------------- C10
\* C10: when the attempts are used up, Transact returns the error recorded by
\* the failing stage of the last attempt, not one of an earlier attempt.
C10_Theorem ==
    (exit = "exhausted" /\ RetryCount > 0) =>
        /\ returnErr # Nil
        /\ returnErr = lastFailure.err
        /\ lastFailure.attempt = RetryCount - 1

\* the last attempt failed at commit after an earlier attempt failed at begin
C10_Witness ==
    /\ exit = "exhausted"
    /\ RetryCount >= 2
    /\ lastFailure.stage = "commit"
    /\ begins > beginOks
    /\ returnErr = lastFailure.err

\* ---------------------------------------------------------------- C11
C11_State ==
    (pc = "done" /\ cbCalls = 1 /\ cbFails = 0 /\ commitCalls = 1 /\ commitOks = 1) =>
        /\ begins = tries + 1
        /\ begins - beginOks = tries
        /\ tries < RetryCount
        /\ rollbackCalls = 0
        /\ returnErr = Nil
        /\ exit = "committed"
        /\ tries > 0 => (lastFailure.stage = "begin" /\ lastFailure.attempt = tries - 1)
        /\ resets = 0 => (handles[tx].rollbacks = 0 /\ handles[tx].commits = 1)

C11_BeginFailureStep ==
    (pc = "loop" /\ tries < RetryCount /\ pc' # "callback") =>
        /\ pc' = "loop"
        /\ tries' = tries + 1
        /\ begins' = begins + 1
        /\ cbCalls' = cbCalls
        /\ commitCalls' = commitCalls
        /\ rollbackCalls' = rollbackCalls
        /\ returnErr' = returnErr
        /\ exit' = "running"

\* C11: when begin fails k times (k < RetryCount) and then succeeds, and the
\* callback and the commit succeed, Transact has issued k+1 begins, one commit
\* and no rollback, has invoked the callback once and returns nil; each failed
\* begin only moves the loop on to the next attempt.
C11_Theorem == []C11_State /\ [][C11_BeginFailureStep]_vars

\* two begins failed, the third attempt went through
C11_Witness ==
    /\ pc = "done"
    /\ exit = "committed"
    /\ tries = 2
    /\ begins = 3
    /\ cbCalls = 1
    /\ commitCalls = 1
    /\ rollbackCalls = 0
    /\ returnErr = Nil

\* ---------------------------------------------------------------- C12
\* C12 as stated: in a call with Retryable = false the callback is invoked at
\* most once: nothing causes a second invocation.
C12_RetryableGoverns ==
    [][(~Retryable /\ cbCalls >= 1) => cbCalls' = cbCalls]_vars

\* ------------------------------------------------- Commander call claims
SelectOps == {"Select", "SelectRow"}
NonRetryingOps ==
    ExecOps \cup {"ExecRaw", "InsertRow", "Query", "QueryRaw", "QueryRow", "QueryRowRaw"}
BuilderOps == ExecOps \cup {"InsertRow", "Query", "QueryRow", "Select", "SelectRow"}

HasReturned == cpc \in {"returned", "scanned", "iterated", "structScanned"}
IsDriverError(err) == err \in {DriverError(e) : e \in DriverErrors}

\* the error of the failing preparation stage, read from the call's inputs
BuildFailure ==
    IF bb.err # Nil THEN bb.err
    ELSE IF PlaceholderFormat = "failing" THEN PlaceholderError
    ELSE Nil

\* ---------------------------------------------------------------- C13
\* C13 as stated: a Select or SelectRow through the Commander of a Transact
\* callback whose query the driver fails is sent exactly once, and that error
\* is what the call returns.
C13_NotRetriedInTransaction ==
    (/\ pc = "callback"
     /\ rawCommander.type = "txWrapper"
     /\ op \in SelectOps
     /\ Len(sent) >= 1
     /\ sent[1].answer.err # Nil) =>
        /\ Len(sent) = 1
        /\ HasReturned => result.err = sent[1].answer.err

\* ---------------------------------------------------------------- C14
C14_State ==
    (/\ rawCommander.type = "txWrapper"
     /\ op \in SelectOps
     /\ HasReturned
     /\ Len(sent) >= 1
     /\ sent[Len(sent)].answer.err = Nil) =>
        /\ result.err = Nil
        /\ result.val = Rows(Len(sent))
        /\ result.val = sent[Len(sent)].answer.rows
        /\ selTries = Len(sent) - 1
        /\ Len(sent) <= rawCommander.RetryCount
        /\ \A i \in 1..(Len(sent) - 1) : IsDriverError(sent[i].answer.err)
        /\ \A i \in DOMAIN sent : sent[i].statement = statement

C14_RetryStep ==
    (/\ cpc = "selectRaw"
     /\ selTries + 1 < rawCommander.RetryCount
     /\ Len(sent') = Len(sent) + 1
     /\ IsDriverError(sent'[Len(sent')].answer.err)) =>
        /\ cpc' = "selectRaw"
        /\ selTries' = selTries + 1
        /\ result' = result

C14_AttemptStep ==
    (cpc = "selectRaw" /\ selTries < rawCommander.RetryCount) =>
        /\ Len(sent') = Len(sent) + 1
        /\ sent'[Len(sent')].statement = statement

\* C14: Select through a txWrapper with RetryCount = n: when the first k query
\* attempts fail with driver errors (k < n) and attempt k+1 succeeds, Select
\* has sent exactly k+1 queries and returns the rows of that attempt with a nil
\* error; a failed attempt with attempts left is followed by another query.
C14_Theorem ==
    /\ []C14_State
    /\ [][C14_RetryStep]_vars
    /\ [][C14_AttemptStep]_vars

\* two attempts failed with different errors, the third gave rows
C14_Witness ==
    /\ op = "Select"
    /\ cpc = "returned"
    /\ Len(sent) = 3
    /\ sent[1].answer.err = DriverError("e1")
    /\ sent[2].answer.err = DriverError("e2")
    /\ result = [val |-> Rows(3), err |-> Nil]

\* ---------------------------------------------------------------- C15
\* C15 as stated: a Select outside a transaction in which every attempt fails
\* has been attempted exactly RetryCount times and returns the first attempt's
\* error.
C15_RetriedOutsideTransaction ==
    (/\ rawCommander.type = "rawDirect"
     /\ op \in SelectOps
     /\ HasReturned
     /\ Len(sent) >= 1
     /\ \A i \in DOMAIN sent : IsDriverError(sent[i].answer.err)) =>
        /\ Len(sent) = RetryCount
        /\ result.err = sent[1].answer.err

\* ---------------------------------------------------------------- C16
\* C16: an invocation of Exec, ExecRaw, Insert, Update, Delete, InsertRow,
\* Query, QueryRaw, QueryRow or QueryRowRaw returns in one go and has sent at
\* most one statement to the driver, whether the driver call succeeded or not.
C16_Theorem ==
    op \in NonRetryingOps =>
        /\ HasReturned
        /\ Len(sent) <= 1
        /\ selTries = 0
        /\ Len(sent) = 1 => sent[1].statement = statement

\* a failed Query was not sent again although the txWrapper had attempts to spare
C16_Witness ==
    /\ op = "Query"
    /\ cpc = "returned"
    /\ rawCommander.type = "txWrapper"
    /\ rawCommander.RetryCount >= 2
    /\ Len(sent) = 1
    /\ IsDriverError(sent[1].answer.err)

\* ---------------------------------------------------------------- C17
\* C17: when the Sqlizer's ToSql or the placeholder rewrite fails, Exec, Query,
\* QueryRow, Select and SelectRow (and Insert, Update, Delete, InsertRow) send
\* no statement, make no retry and return an error that errors.Is the failing
\* stage's error; a Row-returning method puts that error in the Row, whose Scan
\* returns an error that errors.Is it, without touching any cursor.
C17_Theorem ==
    (op \in BuilderOps /\ BuildFailure # Nil) =>
        /\ HasReturned
        /\ sent = << >>
        /\ selTries = 0
        /\ ErrorsIs(result.err, BuildFailure)
        /\ op # "InsertRow" => result.val = Nil
        /\ op \in RowOps => row = [Rows |-> Nil, err |-> result.err]
        /\ cpc = "scanned" =>
              (ErrorsIs(scanned.err, BuildFailure) /\ cursor = NoCalls)

\* the builder's error came out of the Scan of the Row that SelectRow returned
C17_Witness ==
    /\ op = "SelectRow"
    /\ cpc = "scanned"
    /\ bb.err = BuilderError("TEST")
    /\ sent = << >>
    /\ scanned.err # bb.err
    /\ ErrorsIs(scanned.err, bb.err)

\* ---------------------------------------------------------------- C18
\* C18: when the driver fails an exec, Exec (Insert, Update, Delete) and
\* ExecRaw return no result and a QueryError whose Statement is the text the
\* driver received, which for Exec is the builder's text with its placeholders
\* rewritten, and whose unwrap chain reaches the driver's error.
C18_Theorem ==
    (/\ op \in ExecOps \cup {"ExecRaw"}
     /\ Len(sent) = 1
     /\ sent[1].answer.err # Nil) =>
        /\ result.val = Nil
        /\ result.err = QueryError(sent[1].answer.err, sent[1].statement)
        /\ Unwrap(result.err) = sent[1].answer.err
        /\ ErrorsIs(result.err, sent[1].answer.err)
        /\ op \in ExecOps =>
              /\ DOMAIN sent[1].statement = DOMAIN bb.str
              /\ \A i \in DOMAIN bb.str :
                    sent[1].statement[i] = IF bb.str[i] = "?" THEN "!" ELSE bb.str[i]

\* a failed Exec whose error carries the rewritten statement
C18_Witness ==
    /\ op = "Exec"
    /\ cpc = "returned"
    /\ Len(sent) = 1
    /\ sent[1].answer.err = DriverError("e1")
    /\ result.err = QueryError(DriverError("e1"), <<"INSERT INTO b VALUES (", "!", ")">>)

\* ---------------------------------------------------------------- C19
\* C19 as stated: when the driver fails a query, Query, QueryRaw and Select
\* return a QueryError, as exec failures do: it carries the statement text and
\* wraps the driver's error.
C19_QueryErrorCarriesStatement ==
    (/\ op \in {"Query", "QueryRaw", "Select"}
     /\ cpc = "returned"
     /\ Len(sent) >= 1
     /\ IsDriverError(sent[Len(sent)].answer.err)) =>
        \E i \in DOMAIN sent : result.err = QueryError(sent[i].answer.err, statement)

ScannedWithCursor == op \in RowOps /\ row.err = Nil /\ scanCalls >= 1

C22_State ==
    (cpc = "scanned" /\ scanned.next = "noRow") =>
        IF scanned.cursorErr # Nil
        THEN /\ scanned.err # scanned.cursorErr
             /\ Unwrap(scanned.err) = scanned.cursorErr
             /\ ErrorsIs(scanned.err, scanned.cursorErr)
        ELSE scanned.err = ErrNoRows

\* a Scan that finds no row asks the cursor for its error and scans nothing
C22_NoRowStep ==
    (scanCalls' = scanCalls + 1 /\ scanned'.next = "noRow") =>
        /\ cursor'.scans = cursor.scans
        /\ cursor'.errs = cursor.errs + 1

\* C22: when the cursor yields no row, Scan returns an error wrapping the
\* cursor's error if the cursor reports one, and otherwise exactly
\* sql.ErrNoRows, unwrapped; the targets are never scanned into.
C22_Theorem == []C22_State /\ [][C22_NoRowStep]_vars

\* no row, and the cursor reported e1: Scan returned an error wrapping e1
C22_Witness ==
    /\ cpc = "scanned"
    /\ scanCalls = 1
    /\ scanned.next = "noRow"
    /\ scanned.cursorErr = DriverError("e1")
    /\ scanned.err = RowNextError(DriverError("e1"))
    /\ cursor.scans = 0

\* ------------------------------------------------------------------ C23
\* the error rowFromRes captured is the statement's failure: to build, to
\* place its placeholders, or the driver's
CapturedFailure ==
    \/ sent = << >> /\ row.err = BuildFailure
    \/ \E i \in DOMAIN sent : row.err = sent[i].answer.err

\* C23: a Row made from a failed statement returns, from every Scan call and
\* every Columns call, an error that wraps the captured error (errors.Is), and
\* calls neither Next, Err, Scan, Columns nor Close on any cursor.
C23_Theorem ==
    (op \in RowOps /\ HasReturned /\ row.err # Nil) =>
        /\ CapturedFailure
        /\ row.Rows = Nil
        /\ cursor = NoCalls
        /\ columns.onCursor = 0
        /\ scanCalls >= 1 =>
              (scanned.err # row.err /\ ErrorsIs(scanned.err, row.err))
        /\ columns.calls >= 1 =>
              (columns.err # row.err /\ ErrorsIs(columns.err, row.err))

\* the driver failed the query with e1; the Row was scanned twice and asked
\* for its columns, and each call returned an error wrapping e1
C23_Witness ==
    /\ op = "QueryRow"
    /\ row.err = DriverError("e1")
    /\ scanCalls = 2
    /\ columns.calls = 1
    /\ ErrorsIs(scanned.err, DriverError("e1"))
    /\ ErrorsIs(columns.err, DriverError("e1"))
    /\ cursor = NoCalls

\* ------------------------------------------------------------------ C24
\* C24: Rows.Each releases the cursor exactly once on every exit: when fn
\* returns an error (which Each returns, calling fn no further), on a trailing
\* driver error (which Each returns), and at the normal end (where Each
\* returns what Close answers).
C24_EachClosesOnce ==
    cpc = "iterated" =>
        /\ cursor.closes = 1
        /\ each.path = "fnError" => (each.err = FnError /\ each.fnCalls = cursor.nexts)
        /\ each.path = "trailingError" => (each.err # Nil /\ cursor.errs = 1)
        /\ each.path \in {"end", "closeError"} => cursor.errs = 1

\* ------------------------------------------------------------------ C25
\* C25: InsertRow returns (false, nil) when no row was affected, (true, nil)
\* when exactly one was, and (false, error) when two or more were; it never
\* returns true with an error, and a failure to build or execute the
\* statement, or of RowsAffected, is returned with false.
C25_Theorem ==
    (op = "InsertRow" /\ HasReturned) =>
        /\ result.val \in {Bool(TRUE), Bool(FALSE)}
        /\ ~(result.val = Bool(TRUE) /\ result.err # Nil)
        /\ IF sent = << >>
           THEN result = [val |-> Bool(FALSE), err |-> BuildFailure]
           ELSE LET ans == sent[1].answer IN
                IF ans.err # Nil
                THEN result.val = Bool(FALSE) /\ ErrorsIs(result.err, ans.err)
                ELSE IF ans.res.raErr # Nil
                THEN result = [val |-> Bool(FALSE), err |-> ans.res.raErr]
                ELSE /\ ans.res.rowsAffected = 0 =>
                           result = [val |-> Bool(FALSE), err |-> Nil]
                     /\ ans.res.rowsAffected = 1 =>
                           result = [val |-> Bool(TRUE), err |-> Nil]
                     /\ ans.res.rowsAffected >= 2 =>
                           (result.val = Bool(FALSE) /\ result.err # Nil)

\* two rows were affected: InsertRow returned false with an error
C25_Witness ==
    /\ op = "InsertRow"
    /\ HasReturned
    /\ Len(sent) = 1
    /\ sent[1].answer.err = Nil
    /\ sent[1].answer.res.raErr = Nil
    /\ sent[1].answer.res.rowsAffected = 2
    /\ result.val = Bool(FALSE)
    /\ result.err = RowsEffectedError(2)

\* -------------------------------------------------- struct mapper claims
\* the fields a record declares directly for column c
OuterFieldsFor(fields, c) ==
    {<<i>> : i \in {k \in DOMAIN fields :
                       fields[k].kind = "plain" /\ fields[k].tag = c}}

\* the fields the records it embeds declare for column c
EmbeddedFieldsFor(fields, c) ==
    UNION {{<<i, j>> : j \in {k \in DOMAIN fields[i].inner :
                                 fields[i].inner[k].tag = c}} :
              i \in {k \in DOMAIN fields :
                        fields[k].kind # "plain" /\ fields[k].tag # "-"}}

IsMapped(fields, c) ==
    OuterFieldsFor(fields, c) \cup EmbeddedFieldsFor(fields, c) # {}

\* the field column c is mapped to: the last declared directly, and failing
\* that the first of the embedded records
MappedField(fields, c) ==
    IF OuterFieldsFor(fields, c) # {}
    THEN CHOOSE p \in OuterFieldsFor(fields, c) :
            \A q \in OuterFieldsFor(fields, c) : q[1] <= p[1]
    ELSE CHOOSE p \in EmbeddedFieldsFor(fields, c) :
            \A q \in EmbeddedFieldsFor(fields, c) :
               p[1] < q[1] \/ (p[1] = q[1] /\ p[2] <= q[2])

ScanStructDone == op = "ScanStruct" /\ cpc = "mapped"

\* ------------------------------------------------------------------ C26
\* C26: when the source reports a column that no field of the record is
\* mapped to, ScanStruct returns an error and never calls Scan; otherwise it
\* calls Scan exactly once with one target per column, the i-th target being
\* the address of the field mapped to the i-th column, in the cursor's order.
\* A destination that is not a pointer to a record fails before Columns or
\* Scan is called.
C26_Theorem ==
    ScanStructDone =>
        /\ ~IsStructPointer(dest) =>
              (mapErr # Nil /\ src.columnsCalls = 0 /\ src.scanCalls = 0)
        /\ (IsStructPointer(dest) /\ src.ColumnsErr = Nil) =>
              IF \E idx \in DOMAIN src.ColumnsVal :
                    ~IsMapped(dest.fields, src.ColumnsVal[idx])
              THEN mapErr # Nil /\ src.scanCalls = 0
              ELSE /\ src.scanCalls = 1
                   /\ Len(src.toScan) = Len(src.ColumnsVal)
                   /\ \A idx \in DOMAIN src.ColumnsVal :
                         src.toScan[idx] =
                            MappedField(dest.fields, src.ColumnsVal[idx])
                   /\ mapErr = src.ScanErr

\* the cursor reports b then a, the record declares a then b: the targets are
\* the field for b, then the field for a
C26_Witness ==
    /\ ScanStructDone
    /\ dest = StructPointer(<<PlainField("a"), PlainField("b")>>)
    /\ src.ColumnsVal = <<"b", "a">>
    /\ src.scanCalls = 1
    /\ src.toScan = << <<2>>, <<1>> >>
    /\ mapErr = Nil

\* ------------------------------------------------------------------ C27
\* C27: for a record that declares a field for column c directly and also
\* embeds a record declaring a field for c, the mapping built with override
\* enabled at the top level maps c to the outer field's address, whichever of
\* the two is declared first.
C27_Theorem ==
    (ScanStructDone /\ IsStructPointer(dest)) =>
        \A c \in ColumnNames :
           (OuterFieldsFor(dest.fields, c) # {}
               /\ EmbeddedFieldsFor(dest.fields, c) # {}) =>
              /\ addNamed(EmptyCols, TRUE, dest.fields, << >>, 1)[c]
                    \in OuterFieldsFor(dest.fields, c)
              /\ \A idx \in DOMAIN src.toScan :
                    src.ColumnsVal[idx] = c =>
                       src.toScan[idx] \in OuterFieldsFor(dest.fields, c)

\* the outer field for a is declared before the embedded record declaring a,
\* and the target for column a is the outer field
C27_Witness ==
    /\ ScanStructDone
    /\ dest = StructPointer(<<PlainField("a"),
                              Field("", "embedded", <<PlainField("a")>>)>>)
    /\ src.ColumnsVal = <<"a">>
    /\ src.toScan = << <<1>> >>

\* ------------------------------------------------------------------ C28
\* the number of columns a record is mapped to
MappedCount(fields) == Cardinality({c \in ColumnNames : IsMapped(fields, c)})

\* some record after the first yields another number of columns than the first
CountsDiffer ==
    /\ IsStructPointer(srcs[1])
    /\ \E idx \in 2..Len(srcs) :
          /\ IsStructPointer(srcs[idx])
          /\ MappedCount(srcs[idx].fields) # MappedCount(srcs[1].fields)

\* C28: InsertStruct over several records fails with an error, and builds and
\* executes no statement, whenever some record after the first yields a
\* different number of mapped columns than the first.
C28_Theorem ==
    (op = "InsertStruct" /\ HasReturned /\ CountsDiffer) =>
        /\ mapErr # Nil
        /\ result = [val |-> Nil, err |-> mapErr]
        /\ builder = NoBuilder
        /\ bb = NoSqlizer
        /\ statement = << >>
        /\ sent = << >>

\* the first record yields one column and the second two
C28_Witness ==
    /\ op = "InsertStruct"
    /\ HasReturned
    /\ Len(srcs) = 2
    /\ CountsDiffer
    /\ MappedCount(srcs[1].fields) = 1
    /\ MappedCount(srcs[2].fields) = 2
    /\ mapErr = LengthMismatchError
    /\ sent = << >>

\* ------------------------------------------------------------------ C29
\* C29: once the caller's context is cancelled, Transact starts no new retry
\* cycle: no begin is issued after the cancellation, the remaining attempts
\* are not gone through.
C29_NoRetryAfterCancel ==
    [][(cancelled /\ begins > 0) => begins' = begins]_vars

\* ------------------------------------------------------------------ C30
\* a driver call of this attempt's callback failed for the cancellation
\* and the callback invocation ended with an error
CancelFailureReturned == cancelSeen /\ cbOutcome \in {"error", "panic"}

\* C30 (as stated): after a driver call inside the callback fails because of
\* cancellation, Transact never issues commit on that attempt's handle.
C30_Original == [][cancelSeen => commitCalls' = commitCalls]_vars

C30_State ==
    CancelFailureReturned =>
        /\ pc \in {"rollback", "loop", "done"}
        /\ handles[tx].commits = 0
        /\ pc # "rollback" =>
              (driverRes.call = "rollback" /\ handles[tx].rollbacks >= 1)
        /\ (pc # "rollback" /\ driverRes.res # Nil) =>
              /\ pc = "done"
              /\ returnErr = RollbackError(driverRes.res)
              /\ ErrorsIs(returnErr, driverRes.res)

C30_Step ==
    /\ CancelFailureReturned => commitCalls' = commitCalls
    /\ (CancelFailureReturned /\ pc = "rollback" /\ pc' # "rollback") =>
          rollbackCalls' = rollbackCalls + 1
    /\ cancelled => commitOks' = commitOks

\* C30 (amended): after a driver call inside the callback fails because of
\* cancellation and the callback returns an error or panics, Transact never
\* issues commit on that attempt's handle, does issue rollback on it, and if
\* that rollback fails the rollback error is returned, wrapped, to the
\* caller. A callback that returns nil all the same makes Transact issue
\* commit, which cannot succeed once the context is done.
C30_Theorem == []C30_State /\ [][C30_Step]_vars

\* the callback returned the failure, the handle had been rolled back for the
\* cancellation already, and Transact returned the rollback's error
C30_Witness ==
    /\ CancelFailureReturned
    /\ cbOutcome = "error"
    /\ pc = "done"
    /\ driverRes = [call |-> "rollback", res |-> ErrTxDone]
    /\ returnErr = RollbackError(ErrTxDone)
    /\ commitCalls = 0

\* ------------------------------------------------------------------ C32
\* a begin of the retry loop is issued
BeginIssued == begins' = begins + 1

LeftToContext(h) ==
    /\ cancelled
    /\ h = tx
    /\ driverRes = [call |-> "commit", res |-> ContextCanceled]

C32_BeginStep ==
    BeginIssued =>
        \A h \in DOMAIN handles : handles[h].state # "open" \/ LeftToContext(h)

C32_OtherStep ==
    ~BeginIssued =>
        /\ Len(handles') >= Len(handles)
        /\ \A h \in DOMAIN handles : h # tx => handles'[h] = handles[h]

C33_NilOnlyAfterCommit ==
    (pc = "done" /\ returnErr = Nil) =>
        /\ cbCalls >= 1
        /\ cbOutcome = "ok"
        /\ commitOks = 1
        /\ handles[tx].state = "committed"

\* ------------------------------------------------------------------ C35
\* C35: with the callback calling Reset, whose rollback or begin may fail, no
\* transaction handle receives commit or rollback more than once.
C35_OnceOnEachHandle ==
    \A h \in DOMAIN handles : handles[h].commits + handles[h].rollbacks <= 1

\* ------------------------------------------------------------------ C34
\* the callback returned what Exec made of a serialization failure
SerializationFailureReturned ==
    /\ cbErr.kind = "QueryError"
    /\ cbErr.cause = PqError("40001")

\* C34: with the default retry policy, a serialization failure (SQLSTATE
\* 40001) reported to an Exec inside the callback and returned by the callback
\* as Exec returned it is classified as retryable: Transact rolls back and
\* runs the callback again while attempts remain.
C34_SerializationFailureRetried ==
    [][(pc = "rollback" /\ SerializationFailureReturned
           /\ rollbackCalls' = rollbackCalls + 1 /\ driverRes'.res = Nil) =>
          (pc' = "loop" /\ tries' = tries + 1)]_vars

\* ------------------------------------------------------------------ C36
\* C36: Select and SelectRow, and so the SelectRaw they go through, never
\* return a nil row set together with a nil error, whatever the RetryCount:
\* the result is a cursor with a nil error, or a non-nil error with no cursor.
C36_Theorem ==
    (op \in SelectOps /\ HasReturned) =>
        /\ (result.val = Nil) # (result.err = Nil)
        /\ op = "SelectRow" => (row.Rows = Nil) # (row.err = Nil)

\* every try of SelectRaw failed: no cursor, and the first error
C36_Witness ==
    /\ op = "Select"
    /\ HasReturned
    /\ rawCommander.type = "txWrapper"
    /\ Len(sent) = rawCommander.RetryCount
    /\ selTries = rawCommander.RetryCount
    /\ result.val = Nil
    /\ result.err = sent[1].answer.err
    /\ result.err # Nil

\* ------------------------------------------------------------------ C37
\* C37: Row.ScanStruct releases the Row's cursor on every outcome, also when
\* it fails before scanning: the destination is not a pointer to a record,
\* Columns fails, or a column has no matching field.
C37_ScanStructReleases ==
    (cpc = "structScanned" /\ row.err = Nil) => cursor.closes >= 1

\* ------------------------------------------------------------------ C38
\* C38: for every entry point of the struct mapper, a column declared both by
\* a field of the record itself and by a field of a record it embeds is mapped
\* to the field of the record itself. Here for InsertStruct: the value it
\* hands to the builder for such a column comes from the record's own field.
C38_ShallowerFieldWins ==
    (op = "InsertStruct" /\ builder # NoBuilder) =>
        \A idx \in DOMAIN srcs : \A i \in DOMAIN builder.Columns :
           (OuterFieldsFor(srcs[idx].fields, builder.Columns[i]) # {}
               /\ EmbeddedFieldsFor(srcs[idx].fields, builder.Columns[i]) # {}) =>
              builder.Values[idx][i]
                 \in {<<idx>> \o p :
                        p \in OuterFieldsFor(srcs[idx].fields, builder.Columns[i])}

\* ------------------------------------------------------------------ C39
\* a column name occurs more than once across the keys and values of b
HasDuplicateColumn(b) ==
    \E i, j \in DOMAIN (b.keys \o b.vals) :
       i # j /\ (b.keys \o b.vals)[i].column = (b.keys \o b.vals)[j].column

\* C39: UpsertBuilder.ToSql returns an error whenever a column name occurs
\* more than once across the keys and values, and whenever the table, the
\* keys or the values are empty.
C39_DuplicateOrEmptyRejected ==
    [][UpsertToSqlCall =>
          ((HasDuplicateColumn(upsert) \/ upsert.into = ""
               \/ upsert.keys = << >> \/ upsert.vals = << >>)
              => sqlLast'.err # Nil)]_vars

\* ------------------------------------------------------------------ C40
\* C40: UpsertBuilder.ToSql is repeatable: called again with no Key, Set or
\* Where in between, it returns the same text and the same args.
C40_ToSqlRepeatable ==
    (sqlPrev # NoSql /\ sqlLast # NoSql) =>
        (sqlLast.str = sqlPrev.str /\ sqlLast.args = sqlPrev.args)

\* ------------------------------------------------------------------ C31
\* C31: for any interleaving of concurrent Transact calls on one Wrapper,
\* every statement a callback issues is sent, through the Commander of that
\* invocation's current attempt, on a handle begun by that attempt; a handle
\* is committed or rolled back only by the invocation that began it; and no
\* two invocations hold the same handle or the same Commander.
C31_Theorem ==
    /\ \A h \in DOMAIN pool :
          /\ \A s \in pool[h].stmtsBy :
                /\ s.by = pool[h].beganBy
                /\ s.attempt = pool[h].attempt
                /\ s.commander = <<pool[h].beganBy, pool[h].attempt>>
          /\ pool[h].finishedBy \subseteq {pool[h].beganBy}
    /\ \A i, j \in Invocations :
          i # j =>
             /\ calls[i].tx # NoTx => calls[i].tx # calls[j].tx
             /\ calls[i].commander # NoCommandWrapper =>
                   calls[i].commander # calls[j].commander

\* both callbacks are running at once, the second invocation in its second
\* attempt, and each has sent a statement
C31_Witness ==
    /\ calls # << >>
    /\ calls[1].pc = "callback" /\ calls[2].pc = "callback"
    /\ calls[2].tries = 1
    /\ pool[calls[1].tx].stmtsBy # {}
    /\ pool[calls[2].tx].stmtsBy # {}

====
